---- MODULE Spec2Model ----
(***************************************************************************)
(* Model of bot.py: the Pterodactyl deploy bot.  The state is the three    *)
(* SQLite tables (users, servers, log_channels), the views the bot has     *)
(* posted, and the handler coroutines in flight.  Every handler is cut at  *)
(* its await points: one action resumes a coroutine from the await it is   *)
(* suspended on and runs it to its next await (the event loop is single    *)
(* threaded and cooperative, so the code between two awaits is atomic).    *)
(***************************************************************************)
EXTENDS Integers, Sequences, FiniteSets, TLC

\* ------------------------------------------------------------------ values

\* Python's None / SQL NULL for the optional string arguments and columns.
None == "None"

\* Texts that the code inspects (emails, message contents) are sequences of
\* characters; the empty text stands for both None and "" where the code only
\* tests truthiness (`if not resolved_owner_email`).
NoEmail == <<>>
EmailA == <<"a", "@", "x">>
EmailB == <<"b", "@", "x">>
Emails == {EmailA, EmailB}

\* Chat identities (str(user.id)); config.json's "admins" holds u1 only.
Users == {"u1", "u2"}
ADMINS == {"u1"}

\* config.json's "panels": alpha has both keys, beta has neither key.
PANELS == [alpha |-> [url |-> "https://alpha", api_key |-> "ck", application_api_key |-> "ak"],
           beta  |-> [url |-> "https://beta", api_key |-> None, application_api_key |-> None]]

\* Panel names a caller may type: the configured ones and one that is not.
PanelArgs == {"alpha", "beta", "nope"}

\* Passwords a caller may supply, and what secrets.token_urlsafe may return.
Passwords == {"p1"}
Tokens == {"tok"}
Nicknames == {"nick"}
ServerIds == {"srv1", "srv2"}
ServerNames == {"web"}

\* The members a caller may mention (discord_member, owner_discord, member).
Members == {"u2"}

\* The guild channels commands and replies are typed in.
ChatChannels == {"g1", "g2"}

\* Discord channel ids (snowflakes, positive) and their str() forms.
Channels == {101, 102}

\* get_log_channel's "return None": no channel id is 0.
NoChannel == 0

\* The number of commands one behaviour of Spec may start.
MaxInvocations == 2

\* The number of commands one behaviour of AccountSpec may start.
MaxAccountOps == 3

\* The number of commands one behaviour of SinkSpec may start.
MaxSinkOps == 3

\* The number of commands and button presses one behaviour of ShareSpec may
\* start.
MaxShareOps == 3

\* The number of commands and button presses one behaviour of ManageSpec may
\* start.
MaxManageOps == 4

\* The number of commands one behaviour of RaceSpec may start.
MaxRaceOps == 2

\* The coroutine slots: handlers that may be suspended at the same time.
Tasks == {1, 2}

VARIABLES
    users,          \* table users, in rowid order
    servers,        \* table servers, in rowid order
    log_channels,   \* table log_channels, in rowid order
    views,          \* the ManageView / ShareView messages the bot has posted
    tasks,          \* the handler coroutines: Tasks -> task record
    invoked,        \* how many handlers have been started
    bound           \* [limit, width]: handlers a behaviour may start, and how
                    \* many of them may be suspended at the same time

vars == <<users, servers, log_channels, views, tasks, invoked, bound>>

\* ------------------------------------------------------------ conversions

\* str(channel_id), as set_log_channel stores it.
str(c) == CASE c = 101 -> "101" [] c = 102 -> "102" [] OTHER -> "0"

\* int(row[0]), as get_log_channel reads it back.
int(s) == CASE s = "101" -> 101 [] s = "102" -> 102 [] OTHER -> 0

\* msg.content.strip(): drop leading and trailing blanks.
RECURSIVE lstrip(_)
lstrip(s) == IF s # <<>> /\ Head(s) = " " THEN lstrip(Tail(s)) ELSE s

RECURSIVE rstrip(_)
rstrip(s) == IF s # <<>> /\ s[Len(s)] = " " THEN rstrip(SubSeq(s, 1, Len(s) - 1)) ELSE s

\* msg.content.rstrip(): the leading blanks stay.
strip_trailing(s) == rstrip(s)

strip(s) == rstrip(lstrip(s))

\* -------------------------------------------------------------- DB helpers

\* INSERT OR REPLACE INTO users: the row that holds the email is deleted and
\* the new one is inserted.
save_created_user_replace(us, panel_key, email, password, discord_id, nickname) ==
    Append(SelectSeq(us, LAMBDA r : r.email # email),
           [email |-> email, password |-> password, panel_key |-> panel_key,
            discord_id |-> discord_id, nickname |-> nickname])

\* The same with the row of the email overwritten by the later insert.
save_created_user_last(us, panel_key, email, password, discord_id, nickname) ==
    IF \E i \in DOMAIN us : us[i].email = email
    THEN [i \in DOMAIN us |->
            IF us[i].email = email
            THEN [email |-> email, password |-> password, panel_key |-> panel_key,
                  discord_id |-> discord_id, nickname |-> nickname]
            ELSE us[i]]
    ELSE Append(us, [email |-> email, password |-> password, panel_key |-> panel_key,
                     discord_id |-> discord_id, nickname |-> nickname])

\* INSERT OR IGNORE INTO users: email is UNIQUE, so a second insert of an
\* email is dropped.
save_created_user(us, panel_key, email, password, discord_id, nickname) ==
    IF \E i \in DOMAIN us : us[i].email = email
    THEN us
    ELSE Append(us, [email |-> email, password |-> password, panel_key |-> panel_key,
                     discord_id |-> discord_id, nickname |-> nickname])

\* INSERT INTO servers: always a new row.
save_created_server(ss, panel_key, server_uuid, name, owner_email, owner_discord, description) ==
    Append(ss, [panel_key |-> panel_key, server_uuid |-> server_uuid, name |-> name,
                owner_email |-> owner_email, owner_discord |-> owner_discord,
                description |-> description])

\* SELECT server_uuid, name, panel_key FROM servers WHERE owner_discord = ?
\* (slash_myservers, line 939): the rows /myservers lists for a member.
myservers_rows(ss, discord_id) ==
    SelectSeq(ss, LAMBDA r : r.owner_discord # None /\ r.owner_discord = discord_id)

\* UPDATE users SET discord_id = ? WHERE email = ? (shareuser_cmd).
link_discord(us, email, discord_id) ==
    [i \in DOMAIN us |-> IF us[i].email = email
                         THEN [us[i] EXCEPT !.discord_id = discord_id]
                         ELSE us[i]]

\* INSERT OR IGNORE INTO log_channels: the row a server has is kept.
set_log_channel_ignore(lc, panel_key, channel_id, server_id) ==
    IF server_id # None
       /\ \E i \in DOMAIN lc : lc[i].panel_key = panel_key /\ lc[i].server_id = server_id
    THEN lc
    ELSE Append(lc, [panel_key |-> panel_key, server_id |-> server_id,
                     channel_id |-> str(channel_id)])

\* INSERT ... ON CONFLICT(panel_key, server_id) DO UPDATE.  SQLite holds two
\* NULLs to be distinct in a UNIQUE index, so a row whose server_id is NULL
\* never conflicts: every call with server_id None appends a row.
set_log_channel(lc, panel_key, channel_id, server_id) ==
    IF server_id # None
       /\ \E i \in DOMAIN lc : lc[i].panel_key = panel_key /\ lc[i].server_id = server_id
    THEN [i \in DOMAIN lc |->
            IF lc[i].panel_key = panel_key /\ lc[i].server_id = server_id
            THEN [lc[i] EXCEPT !.channel_id = str(channel_id)]
            ELSE lc[i]]
    ELSE Append(lc, [panel_key |-> panel_key, server_id |-> server_id,
                     channel_id |-> str(channel_id)])

\* The rows a SELECT ... WHERE panel_key=? AND server_id=? / IS NULL visits, in
\* rowid order; fetchone() takes the first.
SinkRows(lc, panel_key, server_id) ==
    SelectSeq(lc, LAMBDA r : r.panel_key = panel_key /\ r.server_id = server_id)

\* The two SELECTs in the other order: the panel's default first.
get_log_channel_default_first(lc, panel_key, server_id) ==
    IF SinkRows(lc, panel_key, None) # <<>>
    THEN int(SinkRows(lc, panel_key, None)[1].channel_id)
    ELSE IF server_id # None /\ SinkRows(lc, panel_key, server_id) # <<>>
         THEN int(SinkRows(lc, panel_key, server_id)[1].channel_id)
         ELSE NoChannel

get_log_channel(lc, panel_key, server_id) ==
    IF server_id # None /\ SinkRows(lc, panel_key, server_id) # <<>>
    THEN int(SinkRows(lc, panel_key, server_id)[1].channel_id)
    ELSE IF SinkRows(lc, panel_key, None) # <<>>
         THEN int(SinkRows(lc, panel_key, None)[1].channel_id)
         ELSE NoChannel

\* SELECT email, password, panel_key FROM users WHERE discord_id = ?; fetchone().
UserRows(us, discord_id) == SelectSeq(us, LAMBDA r : r.discord_id = discord_id)

\* The lookup falling back to the first account when the member has none.
find_user_by_discord_or_first(us, discord_id) ==
    IF UserRows(us, discord_id) # <<>> THEN UserRows(us, discord_id)[1].email
    ELSE IF us # <<>> THEN us[1].email
    ELSE NoEmail

find_user_by_discord(us, discord_id) ==
    IF UserRows(us, discord_id) = <<>> THEN NoEmail ELSE UserRows(us, discord_id)[1].email

\* The gate without its test of ADMINS: every caller passes.
is_admin_user_any(user) == user \in Users

is_admin_user(user) == user \in ADMINS

\* ---------------------------------------------------------- HTTP helpers

\* What app_api_request / client_api_request return: {"error": ...},
\* {"status": 204}, or the parsed JSON body.  Of a JSON body the handlers read
\* attributes.uuid, object.attributes.uuid and data (the subuser list) only.
Res(kind, err, attr_uuid, obj_uuid, data) ==
    [kind |-> kind, err |-> err, attr_uuid |-> attr_uuid, obj_uuid |-> obj_uuid, data |-> data]

ErrRes(e) == Res("error", e, None, None, <<>>)
NoContent == Res("status204", None, None, None, <<>>)
Json(attr_uuid, obj_uuid, data) == Res("json", None, attr_uuid, obj_uuid, data)
NoRes == Res("none", None, None, None, <<>>)

\* How a response shows in a message that quotes it (f"{res}").
ResTag(res) == IF res.kind = "error" THEN res.err ELSE res.kind

\* The subuser lists GET /servers/{id}/users may answer with.
SubuserLists ==
    { <<>>,
      << [email |-> EmailA, uuid |-> "su1"] >>,
      << [email |-> EmailB, uuid |-> "su2"], [email |-> EmailA, uuid |-> "su1"] >> }

\* What the panel may answer to a request once it is on the wire: 204, a body
\* that is not JSON, or a JSON body (which for a 4xx/5xx is the panel's own
\* {"errors": [...]} document: it parses, and is returned like any other).
Bodies(what) ==
    CASE what = "create_server" ->
            { Json("srv1", None, <<>>), Json(None, "srv2", <<>>), Json(None, None, <<>>) }
      [] what = "list_users" -> { Json(None, None, d) : d \in SubuserLists }
      [] OTHER -> { Json(None, None, <<>>) }

Responses(what) == { NoContent, ErrRes("invalid_json_response") } \cup Bodies(what)

\* aiohttp raises instead of answering when the transport fails: its timeouts
\* are asyncio.TimeoutError, the rest are aiohttp.ClientError.
Raises == { "TimeoutError", "ClientError" }

\* The same without the test of the key.
app_api_precheck_no_key(panel_key) ==
    IF panel_key \notin DOMAIN PANELS THEN "panel_not_found" ELSE "ok"

\* The part of app_api_request before its first await (lines 145-155).
app_api_precheck(panel_key) ==
    IF panel_key \notin DOMAIN PANELS THEN "panel_not_found"
    ELSE IF PANELS[panel_key].application_api_key = None THEN "missing_application_key"
    ELSE "ok"

\* The part of client_api_request before its first await (lines 179-189).
client_api_precheck(panel_key) ==
    IF panel_key \notin DOMAIN PANELS THEN "panel_not_found"
    ELSE IF PANELS[panel_key].api_key = None THEN "missing_client_key"
    ELSE "ok"

\* ------------------------------------------------------------- coroutines

\* One entry of a coroutine's trace: what it did to the outside world.
\*   call  a call of app_api_request / client_api_request (who: surface)
\*   net   the request of that call put on the wire
\*   ack   a reply to the invoker through the interaction or the context
\*   dm    user.send to `who` (ok: delivered)
\*   post  channel.send to `chan` (ok: delivered)
\*   lost  the log channel id resolved to no channel (fetch_channel raised)
\*   write a committed write to table `what`
\*   raise an exception that left the handler
\* The permissions an invite grants (lines 601 and 667).
InvitePermissions ==
    {"control.start", "control.stop", "control.restart", "control.console", "websocket.connect"}

\* What a call carries of the handler's choosing: the server id and the
\* subuser id in its path, the email, the permissions and the password in
\* its JSON body.  A message that shows a password carries it the same way.
Payload(server_id, email, permissions, uid, password) ==
    [server_id |-> server_id, email |-> email, permissions |-> permissions,
     uid |-> uid, password |-> password]

NoPayload == Payload(None, NoEmail, {}, None, None)

\* The path and body the handlers build for a request (lines 601-603,
\* 631-633, 667-669, 695-697, 727-731, 787-811, 847): the paths with {id}
\* name the server and those with {uid} the subuser, the POSTs that create
\* or invite carry the email, the invite the permissions, POST /users the
\* password.
PayloadOf(tk, what) ==
    Payload(IF what \in {"POST /users", "POST /servers"} THEN None ELSE tk.server_id,
            IF what \in {"POST /users", "POST /servers", "POST /servers/{id}/users"}
            THEN tk.email ELSE NoEmail,
            IF what = "POST /servers/{id}/users" THEN InvitePermissions ELSE {},
            IF what = "DELETE /servers/{id}/users/{uid}" THEN tk.uid ELSE None,
            IF what = "POST /users" THEN tk.pwd ELSE None)

Ev(k, who, what, chan, ok, res) ==
    [k |-> k, who |-> who, what |-> what, chan |-> chan, ok |-> ok, res |-> res,
     arg |-> NoPayload]

IdleTask ==
    [pc |-> "idle", cmd |-> None, user |-> None, chan |-> None, panel |-> None,
     server_id |-> None, email |-> NoEmail, pwd |-> None, nickname |-> None,
     member |-> None, name |-> None, act |-> None, res |-> NoRes, dm_ok |-> FALSE,
     subusers |-> <<>>, lc |-> NoChannel, sess |-> "none", content |-> <<>>,
     owner_discord |-> None, uid |-> None, msg_author |-> None, msg_chan |-> None,
     trace |-> <<>>]

\* A handler that has returned keeps who ran what, what it did and the reply
\* its session got; its other locals are gone.
Finished(tk) ==
    [IdleTask EXCEPT !.pc = "done", !.cmd = tk.cmd, !.user = tk.user, !.panel = tk.panel,
                     !.server_id = tk.server_id, !.member = tk.member,
                     !.owner_discord = tk.owner_discord, !.sess = tk.sess,
                     !.content = tk.content, !.trace = tk.trace]

Did(tk, e) == [tk EXCEPT !.trace = Append(@, e)]

Ack(tk, what, res) == Did(tk, Ev("ack", tk.user, what, NoChannel, TRUE, res))

Raised(tk, x) == Finished(Did(tk, Ev("raise", None, x, NoChannel, FALSE, "")))

\* An adapter call that returned before its request (lines 145-155, 179-189).
Called(tk, surface, what) ==
    Did(tk, [Ev("call", surface, what, NoChannel, TRUE, "") EXCEPT !.arg = PayloadOf(tk, what)])

\* An adapter call whose request is on the wire (lines 161-163, 195-197).
OnWire(tk, surface, what) ==
    Did(Called(tk, surface, what), Ev("net", surface, what, NoChannel, TRUE, ""))

WriteEv(table, chan) == Ev("write", None, table, chan, TRUE, "")

Suspended(t) == tasks[t].pc \notin {"idle", "done"}

\* The slot a new handler takes: the lowest one not suspended.
Free(t) ==
    /\ ~Suspended(t)
    /\ \A u \in Tasks : u < t => Suspended(u)

\* A new handler may be started, in slot t.
Begin(t) ==
    /\ invoked < bound.limit
    /\ Free(t)
    /\ invoked' = invoked + 1
    /\ bound' = bound

\* A new handler may suspend: the bound on suspended handlers is not reached.
Room == Cardinality({u \in Tasks : Suspended(u)}) < bound.width

\* The slots as a new handler finds them: what returned handlers left is gone.
Slots == [u \in Tasks |-> IF Suspended(u) THEN tasks[u] ELSE IdleTask]

New(cmd, user, panel) == [IdleTask EXCEPT !.cmd = cmd, !.user = user, !.panel = panel]

\* dm_user_embed: user.send either delivers or raises, and the raise is caught.
DmEv(who, title, ok, res) == Ev("dm", who, title, NoChannel, ok, res)

\* send_log_embed after a channel id was found: the channel resolves and the
\* send delivers, the send raises, or fetch_channel raises; all are swallowed.
LogOutcomes == {"sent", "send_failed", "unresolvable"}

LogEv(ch, title, o, res) ==
    IF o = "unresolvable" THEN Ev("lost", None, title, ch, FALSE, res)
    ELSE Ev("post", None, title, ch, o = "sent", res)

InitStore ==
    /\ users = <<>>
    /\ servers = <<>>
    /\ log_channels = <<>>
    /\ views = {}
    /\ tasks = [t \in Tasks |-> IdleTask]
    /\ invoked = 0

Init ==
    /\ InitStore
    /\ bound = [limit |-> MaxInvocations, width |-> 1]

\* --------------------------------------------- /setlogchannel, /setserverlog

slash_setlogchannel(t) ==
    \E user \in Users, panel \in PanelArgs, channel \in Channels :
        /\ Begin(t)
        /\ IF ~is_admin_user(user)
           THEN /\ tasks' = [Slots EXCEPT ![t] =
                        Finished(Ack(New("setlogchannel", user, panel), "not_authorized", ""))]
                /\ UNCHANGED log_channels
           ELSE /\ log_channels' = set_log_channel(log_channels, panel, channel, None)
                /\ tasks' = [Slots EXCEPT ![t] =
                        Finished(Ack(Did(New("setlogchannel", user, panel), WriteEv("log_channels", channel)),
                                     "logs_set", ""))]
        /\ UNCHANGED <<users, servers, views>>

slash_setserverlog(t) ==
    \E user \in Users, panel \in PanelArgs, server_id \in ServerIds, channel \in Channels :
        /\ Begin(t)
        /\ IF ~is_admin_user(user)
           THEN /\ tasks' = [Slots EXCEPT ![t] =
                        Finished(Ack(New("setserverlog", user, panel), "not_authorized", ""))]
                /\ UNCHANGED log_channels
           ELSE /\ log_channels' = set_log_channel(log_channels, panel, channel, server_id)
                /\ tasks' = [Slots EXCEPT ![t] =
                        Finished(Ack(Did([New("setserverlog", user, panel) EXCEPT !.server_id = server_id],
                                         WriteEv("log_channels", channel)),
                                     "logs_set", ""))]
        /\ UNCHANGED <<users, servers, views>>

\* ------------------------------------------------------------ /createuser

\* Lines 737 and 745: the texts /createuser sends show the email and the
\* password of this invocation (dm_desc goes to the invoker and to the log).
ShowsPassword(e, tk) == [e EXCEPT !.arg = Payload(None, tk.email, {}, None, tk.pwd)]

\* The same with the log post left out when the invoker's DM was blocked.
cu_log_and_reply_if_dm(t, tk) ==
    LET ch == get_log_channel(log_channels, tk.panel, None)
        reply == IF tk.dm_ok THEN "user_created" ELSE "user_created_dm_blocked"
    IN  IF ch = NoChannel \/ ~tk.dm_ok
        THEN tasks' = [tasks EXCEPT ![t] = Finished(Ack(tk, reply, IF tk.dm_ok THEN "" ELSE ResTag(tk.res)))]
        ELSE tasks' = [tasks EXCEPT ![t] = [tk EXCEPT !.pc = "cu_log", !.lc = ch]]

\* Lines 747-755: send_log_embed(panel, None, ...) and the followup.
cu_log_and_reply(t, tk) ==
    LET ch == get_log_channel(log_channels, tk.panel, None)
        reply == IF tk.dm_ok THEN "user_created" ELSE "user_created_dm_blocked"
    IN  IF ch = NoChannel
        THEN tasks' = [tasks EXCEPT ![t] = Finished(Ack(tk, reply, IF tk.dm_ok THEN "" ELSE ResTag(tk.res)))]
        ELSE tasks' = [tasks EXCEPT ![t] = [tk EXCEPT !.pc = "cu_log", !.lc = ch]]

\* The same with the DM to the invoker sent before save_created_user.
cu_dm_and_save(t, slots, tk, res) ==
    /\ users' = save_created_user(users, tk.panel, tk.email, tk.pwd, tk.member, tk.nickname)
    /\ tasks' = [slots EXCEPT ![t] =
            [Did(Did(tk, ShowsPassword(DmEv(tk.user, "User Created", TRUE, ResTag(res)), tk)),
                 WriteEv("users", NoChannel)) EXCEPT
                !.res = res, !.dm_ok = TRUE,
                !.pc = IF tk.member # None THEN "cu_dm_member" ELSE "cu_dm"]]

\* Lines 733-739: save_created_user, then the DM to the invoker is awaited.
cu_save_and_dm(t, slots, tk, res) ==
    /\ users' = save_created_user(users, tk.panel, tk.email, tk.pwd, tk.member, tk.nickname)
    /\ tasks' = [slots EXCEPT ![t] = [Did(tk, WriteEv("users", NoChannel)) EXCEPT !.res = res, !.pc = "cu_dm"]]

\* Lines 717-731: the gate, the password, and app_api_request up to its await.
cu_begin(t) ==
    \E user \in Users, panel \in PanelArgs, email \in Emails,
       password \in Passwords \cup {None}, token \in Tokens,
       nickname \in Nicknames \cup {None}, discord_member \in Members \cup {None} :
        LET tk == [New("createuser", user, panel) EXCEPT
                        !.email = email,
                        !.pwd = IF password # None THEN password ELSE token,
                        !.nickname = nickname, !.member = discord_member]
        IN  /\ Begin(t)
            /\ IF ~is_admin_user(user)
               THEN /\ tasks' = [Slots EXCEPT ![t] =
                            Finished(Ack(New("createuser", user, panel), "not_authorized", ""))]
                    /\ UNCHANGED users
               ELSE /\ Room
                    /\ IF app_api_precheck(panel) # "ok"
                       THEN cu_save_and_dm(t, Slots, Called(tk, "application", "POST /users"),
                                           ErrRes(app_api_precheck(panel)))
                       ELSE /\ tasks' = [Slots EXCEPT ![t] =
                                    [OnWire(tk, "application", "POST /users") EXCEPT !.pc = "cu_net"]]
                            /\ UNCHANGED users
            /\ UNCHANGED <<servers, log_channels, views>>

\* Line 731 resumes: the panel answered, or the request raised.
cu_net(t) ==
    /\ tasks[t].pc = "cu_net"
    /\ \/ \E res \in Responses("create_user") : cu_save_and_dm(t, tasks, tasks[t], res)
       \/ \E x \in Raises :
            /\ tasks' = [tasks EXCEPT ![t] = Raised(tasks[t], x)]
            /\ UNCHANGED users
    /\ UNCHANGED <<servers, log_channels, views, invoked, bound>>

\* Line 739 resumes: the invoker's DM went through or not; lines 743-747.
cu_dm(t) ==
    /\ tasks[t].pc = "cu_dm"
    /\ \E ok \in BOOLEAN :
        LET tk == [Did(tasks[t], ShowsPassword(DmEv(tasks[t].user, "User Created", ok,
                                                    ResTag(tasks[t].res)), tasks[t]))
                        EXCEPT !.dm_ok = ok]
        IN  IF tk.member # None
            THEN tasks' = [tasks EXCEPT ![t] = [tk EXCEPT !.pc = "cu_dm_member"]]
            ELSE cu_log_and_reply(t, tk)
    /\ UNCHANGED <<users, servers, log_channels, views, invoked, bound>>

\* Line 745 resumes: the member's DM went through or not.
cu_dm_member(t) ==
    /\ tasks[t].pc = "cu_dm_member"
    /\ \E ok \in BOOLEAN :
        cu_log_and_reply(t, Did(tasks[t], ShowsPassword(DmEv(tasks[t].member, "Your Panel Account", ok, ""),
                                                        tasks[t])))
    /\ UNCHANGED <<users, servers, log_channels, views, invoked, bound>>

\* Line 747 resumes: the log post is over; lines 749-755.
cu_log(t) ==
    /\ tasks[t].pc = "cu_log"
    /\ \E o \in LogOutcomes :
        LET tk == Did(tasks[t], ShowsPassword(LogEv(tasks[t].lc, "User Created", o, ResTag(tasks[t].res)),
                                              tasks[t]))
        IN  tasks' = [tasks EXCEPT ![t] =
                Finished(Ack(tk, IF tk.dm_ok THEN "user_created" ELSE "user_created_dm_blocked",
                             IF tk.dm_ok THEN "" ELSE ResTag(tk.res)))]
    /\ UNCHANGED <<users, servers, log_channels, views, invoked, bound>>

slash_createuser(t) ==
    cu_begin(t) \/ cu_net(t) \/ cu_dm(t) \/ cu_dm_member(t) \/ cu_log(t)

\* ----------------------------------------------------------- /createserver

\* Lines 813-817: the uuid the response carries, if any.  An {"error": ...}
\* or {"status": 204} dict carries none.
response_uuid(res) ==
    IF res.attr_uuid # None THEN res.attr_uuid ELSE res.obj_uuid

\* Line 819: `server_uuid or "unknown"`.
stored_uuid(res) == IF response_uuid(res) # None THEN response_uuid(res) ELSE "unknown"

\* Lines 769-781: the owner's email and the chat identity that is stored.
\* The identity is kept only when the email came from the member's account.
resolve_owner(us, owner_email, owner_discord) ==
    IF owner_email = NoEmail /\ owner_discord # None
          /\ find_user_by_discord(us, owner_discord) # NoEmail
    THEN [email |-> find_user_by_discord(us, owner_discord), discord_id |-> owner_discord]
    ELSE [email |-> owner_email, discord_id |-> None]

\* Lines 819-825: save_created_server, then the DM to the invoker is awaited.
\* tk.email is resolved_owner_email, tk.member is owner_discord_id.
cs_save_and_dm(t, slots, tk, res) ==
    /\ servers' = save_created_server(servers, tk.panel, stored_uuid(res), tk.name,
                                      tk.email, tk.member, None)
    /\ tasks' = [slots EXCEPT ![t] =
            [Did(tk, WriteEv("servers", NoChannel)) EXCEPT !.res = res, !.server_id = response_uuid(res),
                                                 !.pc = "cs_dm"]]

\* Lines 831-833: send_log_embed(panel, server_uuid, ...) and the followup.
cs_log_and_reply(t, tk) ==
    LET ch == get_log_channel(log_channels, tk.panel, tk.server_id)
    IN  IF ch = NoChannel
        THEN tasks' = [tasks EXCEPT ![t] = Finished(Ack(tk, "server_creation_requested", ""))]
        ELSE tasks' = [tasks EXCEPT ![t] = [tk EXCEPT !.pc = "cs_log", !.lc = ch]]

\* Lines 761-811: the gate, the owner, and app_api_request up to its await.
cs_begin(t) ==
    \E user \in Users, panel \in PanelArgs, owner_email \in Emails \cup {NoEmail},
       owner_discord \in Members \cup {None}, name \in ServerNames :
        LET owner == resolve_owner(users, owner_email, owner_discord)
            tk == [New("createserver", user, panel) EXCEPT
                        !.email = owner.email, !.member = owner.discord_id, !.name = name,
                        !.owner_discord = owner_discord]
        IN  /\ Begin(t)
            /\ IF ~is_admin_user(user)
               THEN /\ tasks' = [Slots EXCEPT ![t] =
                            Finished(Ack(New("createserver", user, panel), "not_authorized", ""))]
                    /\ UNCHANGED servers
               ELSE IF owner.email = NoEmail
               THEN /\ tasks' = [Slots EXCEPT ![t] =
                            Finished(Ack(tk, "owner_unresolved", ""))]
                    /\ UNCHANGED servers
               ELSE /\ Room
                    /\ IF app_api_precheck(panel) # "ok"
                       THEN cs_save_and_dm(t, Slots, Called(tk, "application", "POST /servers"),
                                           ErrRes(app_api_precheck(panel)))
                       ELSE /\ tasks' = [Slots EXCEPT ![t] =
                                    [OnWire(tk, "application", "POST /servers") EXCEPT !.pc = "cs_net"]]
                            /\ UNCHANGED servers
            /\ UNCHANGED <<users, log_channels, views>>

\* Line 811 resumes.
cs_net(t) ==
    /\ tasks[t].pc = "cs_net"
    /\ \/ \E res \in Responses("create_server") : cs_save_and_dm(t, tasks, tasks[t], res)
       \/ \E x \in Raises :
            /\ tasks' = [tasks EXCEPT ![t] = Raised(tasks[t], x)]
            /\ UNCHANGED servers
    /\ UNCHANGED <<users, log_channels, views, invoked, bound>>

\* Line 825 resumes; lines 827-831.  owner_discord_id is set only together
\* with owner_discord, so the owner's DM hangs on owner_discord_id alone.
cs_dm(t) ==
    /\ tasks[t].pc = "cs_dm"
    /\ \E ok \in BOOLEAN :
        LET tk == Did(tasks[t], DmEv(tasks[t].user, "Server Created", ok, ResTag(tasks[t].res)))
        IN  IF tk.member # None
            THEN tasks' = [tasks EXCEPT ![t] = [tk EXCEPT !.pc = "cs_dm_owner"]]
            ELSE cs_log_and_reply(t, tk)
    /\ UNCHANGED <<users, servers, log_channels, views, invoked, bound>>

\* Line 829 resumes.
cs_dm_owner(t) ==
    /\ tasks[t].pc = "cs_dm_owner"
    /\ \E ok \in BOOLEAN :
        cs_log_and_reply(t, Did(tasks[t], DmEv(tasks[t].member, "Your Server Created", ok,
                                               ResTag(tasks[t].res))))
    /\ UNCHANGED <<users, servers, log_channels, views, invoked, bound>>

\* Line 831 resumes; line 833.
cs_log(t) ==
    /\ tasks[t].pc = "cs_log"
    /\ \E o \in LogOutcomes :
        tasks' = [tasks EXCEPT ![t] =
            Finished(Ack(Did(tasks[t], LogEv(tasks[t].lc, "Server Created", o, ResTag(tasks[t].res))),
                         "server_creation_requested", ""))]
    /\ UNCHANGED <<users, servers, log_channels, views, invoked, bound>>

slash_createserver(t) ==
    cs_begin(t) \/ cs_net(t) \/ cs_dm(t) \/ cs_dm_owner(t) \/ cs_log(t)

\* ----------------------------------------------------------- /deleteserver

\* Lines 839-847: the gate, and app_api_request up to its await.
ds_begin(t) ==
    \E user \in Users, panel \in PanelArgs, server_uuid \in ServerIds :
        LET tk == [New("deleteserver", user, panel) EXCEPT !.server_id = server_uuid]
        IN  /\ Begin(t)
            /\ IF ~is_admin_user(user)
               THEN tasks' = [Slots EXCEPT ![t] =
                        Finished(Ack(New("deleteserver", user, panel), "not_authorized", ""))]
               ELSE /\ Room
                    /\ IF app_api_precheck(panel) # "ok"
                       THEN tasks' = [Slots EXCEPT ![t] =
                                [Called(tk, "application", "DELETE /servers/{uuid}") EXCEPT
                                    !.res = ErrRes(app_api_precheck(panel)), !.pc = "ds_dm"]]
                       ELSE tasks' = [Slots EXCEPT ![t] =
                                [OnWire(tk, "application", "DELETE /servers/{uuid}") EXCEPT !.pc = "ds_net"]]
            /\ UNCHANGED <<users, servers, log_channels, views>>

\* The same with the rows of the deleted server taken out of the table when
\* the panel answers.
ds_net_forget(t) ==
    /\ tasks[t].pc = "ds_net"
    /\ \/ \E res \in Responses("delete_server") :
            /\ tasks' = [tasks EXCEPT ![t] = [tasks[t] EXCEPT !.res = res, !.pc = "ds_dm"]]
            /\ servers' = SelectSeq(servers, LAMBDA r :
                    ~(r.panel_key = tasks[t].panel /\ r.server_uuid = tasks[t].server_id))
       \/ \E x \in Raises : /\ tasks' = [tasks EXCEPT ![t] = Raised(tasks[t], x)]
                             /\ servers' = servers
    /\ UNCHANGED <<users, log_channels, views, invoked, bound>>

\* Line 847 resumes; line 851 awaits the DM.
ds_net(t) ==
    /\ tasks[t].pc = "ds_net"
    /\ \/ \E res \in Responses("delete_server") :
            tasks' = [tasks EXCEPT ![t] = [tasks[t] EXCEPT !.res = res, !.pc = "ds_dm"]]
       \/ \E x \in Raises : tasks' = [tasks EXCEPT ![t] = Raised(tasks[t], x)]
    /\ UNCHANGED <<users, servers, log_channels, views, invoked, bound>>

\* Line 851 resumes; lines 853-855.
ds_dm(t) ==
    /\ tasks[t].pc = "ds_dm"
    /\ \E ok \in BOOLEAN :
        LET tk == Did(tasks[t], DmEv(tasks[t].user, "Server Delete Requested", ok, ResTag(tasks[t].res)))
            ch == get_log_channel(log_channels, tk.panel, tk.server_id)
        IN  IF ch = NoChannel
            THEN tasks' = [tasks EXCEPT ![t] = Finished(Ack(tk, "delete_requested", ""))]
            ELSE tasks' = [tasks EXCEPT ![t] = [tk EXCEPT !.pc = "ds_log", !.lc = ch]]
    /\ UNCHANGED <<users, servers, log_channels, views, invoked, bound>>

\* Line 853 resumes; line 855.
ds_log(t) ==
    /\ tasks[t].pc = "ds_log"
    /\ \E o \in LogOutcomes :
        tasks' = [tasks EXCEPT ![t] =
            Finished(Ack(Did(tasks[t], LogEv(tasks[t].lc, "Server Delete", o, ResTag(tasks[t].res))),
                         "delete_requested", ""))]
    /\ UNCHANGED <<users, servers, log_channels, views, invoked, bound>>

slash_deleteserver(t) == ds_begin(t) \/ ds_net(t) \/ ds_dm(t) \/ ds_log(t)

\* ------------------------------------------------------------ /viewservers

\* Lines 859-869: the gate and the read; with rows, line 881 awaits the DM
\* (the rows here fill one chunk of 1900 characters).
vs_begin(t) ==
    \E user \in Users :
        /\ Begin(t)
        /\ IF ~is_admin_user(user)
           THEN tasks' = [Slots EXCEPT ![t] =
                    Finished(Ack(New("viewservers", user, None), "not_authorized", ""))]
           ELSE IF servers = <<>>
           THEN tasks' = [Slots EXCEPT ![t] =
                    Finished(Ack(New("viewservers", user, None), "no_stored_servers", ""))]
           ELSE /\ Room
                /\ tasks' = [Slots EXCEPT ![t] = [New("viewservers", user, None) EXCEPT !.pc = "vs_dm"]]
        /\ UNCHANGED <<users, servers, log_channels, views>>

\* Line 881 resumes (a raise is passed over); line 887.
vs_dm(t) ==
    /\ tasks[t].pc = "vs_dm"
    /\ \E ok \in BOOLEAN :
        tasks' = [tasks EXCEPT ![t] =
            Finished(Ack(Did(tasks[t], DmEv(tasks[t].user, "Servers", ok, "")), "sent_server_list", ""))]
    /\ UNCHANGED <<users, servers, log_channels, views, invoked, bound>>

slash_viewservers(t) == vs_begin(t) \/ vs_dm(t)

\* ------------------------------------------------- .manage and its buttons

\* A posted view: the closure of its class (panel_key, server_id, and for a
\* ShareView the subusers listed when it was built) and the channel it is in.
View(kind, chan, panel, server_id, subusers) ==
    [kind |-> kind, chan |-> chan, panel |-> panel, server_id |-> server_id, subusers |-> subusers]

\* Lines 437-441 and 561.
manage_cmd(t) ==
    \E user \in Users, chan \in ChatChannels, panel_key \in PanelArgs, server_id \in ServerIds :
        /\ Begin(t)
        /\ IF panel_key \notin DOMAIN PANELS
           THEN /\ tasks' = [Slots EXCEPT ![t] =
                        Finished(Ack(New("manage", user, panel_key), "panel_not_configured", ""))]
                /\ UNCHANGED views
           ELSE /\ views' = views \cup {View("manage", chan, panel_key, server_id, <<>>)}
                /\ tasks' = [Slots EXCEPT ![t] =
                        Finished(Ack([New("manage", user, panel_key) EXCEPT !.server_id = server_id],
                                     "manage_view", ""))]
        /\ UNCHANGED <<users, servers, log_channels>>

\* The buttons of ManageView (lines 513-559).
Buttons == {"start", "stop", "restart", "reinstall", "status", "ip", "ping", "share"}

\* The request perform sends for a button (lines 461-497).
button_request(action) ==
    CASE action \in {"start", "stop", "restart"} -> "POST /servers/{id}/power"
      [] action = "reinstall" -> "POST /servers/{id}/reinstall"
      [] action = "ip" -> "GET /servers/{id}/network"
      [] OTHER -> "GET /servers/{id}/resources"

\* The title of the log embed for a button (lines 465-501).
button_title(action) ==
    CASE action \in {"start", "stop", "restart"} -> "Power"
      [] action = "reinstall" -> "Reinstall requested"
      [] action = "status" -> "Status"
      [] action = "ip" -> "Network"
      [] OTHER -> "Ping"

\* Lines 579-581 and 649-655: the embed lists the emails or "No shared
\* users"; the ShareView goes out with it.
ms_present(t, slots, tk, res) ==
    /\ views' = views \cup {View("share", tk.chan, tk.panel, tk.server_id, res.data)}
    /\ tasks' = [slots EXCEPT ![t] =
            Finished(Ack(tk, "share_manager",
                         IF res.data = <<>> THEN "no_shared_users" ELSE "shared_users"))]

\* Line 573: client_api_request up to its await, or through if it returns
\* before one.
ms_list(t, slots, tk) ==
    IF client_api_precheck(tk.panel) # "ok"
    THEN ms_present(t, slots, Called(tk, "client", "GET /servers/{id}/users"),
                    ErrRes(client_api_precheck(tk.panel)))
    ELSE /\ tasks' = [slots EXCEPT ![t] =
                [OnWire(tk, "client", "GET /servers/{id}/users") EXCEPT !.pc = "ms_net"]]
         /\ UNCHANGED views

\* Lines 453-505: defer, then the button's request up to its await.
pf_begin(t) ==
    \E user \in Users, v \in views, action \in Buttons :
        LET tk == [New("perform", user, v.panel) EXCEPT
                        !.server_id = v.server_id, !.chan = v.chan, !.act = action]
        IN  /\ v.kind = "manage"
            /\ Begin(t)
            /\ Room
            /\ IF action = "share"
               THEN ms_list(t, Slots, Ack(tk, "opening_share_manager", ""))
               ELSE /\ IF client_api_precheck(tk.panel) # "ok"
                       THEN tasks' = [Slots EXCEPT ![t] =
                                [Ack(Called(tk, "client", button_request(action)), "result",
                                     client_api_precheck(tk.panel)) EXCEPT
                                    !.res = ErrRes(client_api_precheck(tk.panel)), !.pc = "pf_acked"]]
                       ELSE tasks' = [Slots EXCEPT ![t] =
                                [OnWire(tk, "client", button_request(action)) EXCEPT !.pc = "pf_net"]]
                    /\ UNCHANGED views
            /\ UNCHANGED <<users, servers, log_channels>>

\* The request resumes: the followup with the result is awaited; a raise is
\* caught at line 509 and answered with "Error: ...".
pf_net(t) ==
    /\ tasks[t].pc = "pf_net"
    /\ \/ \E res \in Responses("button") :
            tasks' = [tasks EXCEPT ![t] =
                [Ack(tasks[t], "result", ResTag(res)) EXCEPT !.res = res, !.pc = "pf_acked"]]
       \/ \E x \in Raises :
            tasks' = [tasks EXCEPT ![t] = Finished(Ack(tasks[t], "error", x))]
    /\ UNCHANGED <<users, servers, log_channels, views, invoked, bound>>

\* Lines 467 and 477: only the power and reinstall buttons DM the invoker.
pf_dm_or_done(tk) ==
    IF tk.act \in {"start", "stop", "restart", "reinstall"}
    THEN [tk EXCEPT !.pc = "pf_dm"]
    ELSE Finished(tk)

\* The followup resumes: send_log_embed(panel_key, server_id, ...).
pf_acked(t) ==
    /\ tasks[t].pc = "pf_acked"
    /\ LET ch == get_log_channel(log_channels, tasks[t].panel, tasks[t].server_id)
       IN  IF ch = NoChannel
           THEN tasks' = [tasks EXCEPT ![t] = pf_dm_or_done(tasks[t])]
           ELSE tasks' = [tasks EXCEPT ![t] = [tasks[t] EXCEPT !.pc = "pf_log", !.lc = ch]]
    /\ UNCHANGED <<users, servers, log_channels, views, invoked, bound>>

pf_log(t) ==
    /\ tasks[t].pc = "pf_log"
    /\ \E o \in LogOutcomes :
        tasks' = [tasks EXCEPT ![t] =
            pf_dm_or_done(Did(tasks[t], LogEv(tasks[t].lc, button_title(tasks[t].act), o,
                                              ResTag(tasks[t].res))))]
    /\ UNCHANGED <<users, servers, log_channels, views, invoked, bound>>

pf_dm(t) ==
    /\ tasks[t].pc = "pf_dm"
    /\ \E ok \in BOOLEAN :
        tasks' = [tasks EXCEPT ![t] =
            Finished(Did(tasks[t], DmEv(tasks[t].user, "Action Sent", ok, ResTag(tasks[t].res))))]
    /\ UNCHANGED <<users, servers, log_channels, views, invoked, bound>>

perform(t) == pf_begin(t) \/ pf_net(t) \/ pf_acked(t) \/ pf_log(t) \/ pf_dm(t)

\* ------------------------------------------------------------ .manageshare

\* Lines 657-661 into 569-573.
ms_begin(t) ==
    \E user \in Users, chan \in ChatChannels, panel_key \in PanelArgs, server_id \in ServerIds :
        /\ Begin(t)
        /\ Room
        /\ ms_list(t, Slots, [New("manageshare", user, panel_key) EXCEPT
                                    !.server_id = server_id, !.chan = chan])
        /\ UNCHANGED <<users, servers, log_channels>>

\* Line 573 resumes.  `res.get("data", [])` is [] for {"error": ...} and for
\* {"status": 204}.  A raise leaves .manageshare unanswered; under the Share
\* button it is caught by perform (line 509).
ms_net(t) ==
    /\ tasks[t].pc = "ms_net"
    /\ \/ \E res \in Responses("list_users") : ms_present(t, tasks, tasks[t], res)
       \/ \E x \in Raises :
            /\ tasks' = [tasks EXCEPT ![t] =
                    IF tasks[t].cmd = "perform"
                    THEN Finished(Ack(tasks[t], "error", x))
                    ELSE Raised(tasks[t], x)]
            /\ UNCHANGED views
    /\ UNCHANGED <<users, servers, log_channels, invoked, bound>>

manageshare_cmd_internal(t) == ms_begin(t) \/ ms_net(t)

\* ---------------------------------------------- ShareView and its sessions

\* What an actor may type as a reply.
Contents == { EmailA, <<" ">> \o EmailB \o <<" ">> }

\* Lines 589-597: the prompt, then bot.wait_for("message", check, 60 s): the
\* session is open.
au_begin(t) ==
    \E user \in Users, v \in views :
        /\ v.kind = "share"
        /\ Begin(t)
        /\ Room
        /\ tasks' = [Slots EXCEPT ![t] =
                [Did([New("add_user", user, v.panel) EXCEPT !.server_id = v.server_id, !.chan = v.chan],
                     Ev("prompt", user, "reply_with_email", NoChannel, TRUE, ""))
                    EXCEPT !.pc = "au_wait", !.sess = "open"]]
        /\ UNCHANGED <<users, servers, log_channels, views>>

\* The same for the Revoke button of a ShareView that lists the subusers
\* again when it is pressed.
ru_begin_relist(t) ==
    \E user \in Users, v \in views, listed \in SubuserLists :
        /\ v.kind = "share"
        /\ Begin(t)
        /\ Room
        /\ tasks' = [Slots EXCEPT ![t] =
                [Did([New("revoke_user", user, v.panel) EXCEPT
                            !.server_id = v.server_id, !.chan = v.chan, !.subusers = listed],
                     Ev("prompt", user, "reply_with_email", NoChannel, TRUE, ""))
                    EXCEPT !.pc = "ru_wait", !.sess = "open"]]
        /\ UNCHANGED <<users, servers, log_channels, views>>

\* Lines 615-623: the same for the Revoke button; subusers is the list the
\* ShareView was built with.
ru_begin(t) ==
    \E user \in Users, v \in views :
        /\ v.kind = "share"
        /\ Begin(t)
        /\ Room
        /\ tasks' = [Slots EXCEPT ![t] =
                [Did([New("revoke_user", user, v.panel) EXCEPT
                            !.server_id = v.server_id, !.chan = v.chan, !.subusers = v.subusers],
                     Ev("prompt", user, "reply_with_email", NoChannel, TRUE, ""))
                    EXCEPT !.pc = "ru_wait", !.sess = "open"]]
        /\ UNCHANGED <<users, servers, log_channels, views>>

\* The same without the test of the channel.
check_author(tk, author, channel) == author = tk.user

\* check(m) of lines 593 and 619.
check(tk, author, channel) == author = tk.user /\ channel = tk.chan

\* A message is dispatched: every open wait_for whose check accepts it gets
\* it as its result and is no longer listening (lines 597-599, 623-625).
Message ==
    \E author \in Users, channel \in ChatChannels, content \in Contents :
        /\ \E t \in Tasks : tasks[t].sess = "open" /\ check(tasks[t], author, channel)
        /\ tasks' = [t \in Tasks |->
                IF tasks[t].sess = "open" /\ check(tasks[t], author, channel)
                THEN [tasks[t] EXCEPT !.sess = "resolved", !.content = content,
                                      !.msg_author = author, !.msg_chan = channel,
                                      !.email = strip(content),
                                      !.pc = IF tasks[t].cmd = "add_user" THEN "au_got" ELSE "ru_got"]
                ELSE tasks[t]]
        /\ UNCHANGED <<users, servers, log_channels, views, invoked, bound>>

\* wait_for with timeout=None: the deadline never passes.
Timeout_none(t) ==
    /\ tasks[t].sess = "open"
    /\ FALSE
    /\ UNCHANGED vars

\* The except clause without its end of the handler: "Timed out" is sent and
\* the code after wait_for runs all the same, with no message.
Timeout_goes_on(t) ==
    /\ tasks[t].sess = "open"
    /\ tasks' = [tasks EXCEPT ![t] =
            [Ack([tasks[t] EXCEPT !.sess = "timed_out"], "timed_out", "") EXCEPT
                !.pc = IF tasks[t].cmd = "add_user" THEN "au_got" ELSE "ru_got"]]
    /\ UNCHANGED <<users, servers, log_channels, views, invoked, bound>>

\* DEFAULT_TIMEOUT passes with no accepted message: wait_for raises
\* asyncio.TimeoutError, caught at lines 609 and 643.
Timeout(t) ==
    /\ tasks[t].sess = "open"
    /\ tasks' = [tasks EXCEPT ![t] = Finished(Ack([tasks[t] EXCEPT !.sess = "timed_out"], "timed_out", ""))]
    /\ UNCHANGED <<users, servers, log_channels, views, invoked, bound>>

\* Lines 601-603: the invite request up to its await (or through).
au_got(t) ==
    /\ tasks[t].pc = "au_got"
    /\ IF client_api_precheck(tasks[t].panel) # "ok"
       THEN tasks' = [tasks EXCEPT ![t] =
                [Ack(Called(tasks[t], "client", "POST /servers/{id}/users"), "invited",
                     client_api_precheck(tasks[t].panel)) EXCEPT
                    !.res = ErrRes(client_api_precheck(tasks[t].panel)), !.pc = "au_acked"]]
       ELSE tasks' = [tasks EXCEPT ![t] =
                [OnWire(tasks[t], "client", "POST /servers/{id}/users") EXCEPT !.pc = "au_net"]]
    /\ UNCHANGED <<users, servers, log_channels, views, invoked, bound>>

\* What a raise inside the try of lines 595-611 / 621-645 comes to: an
\* asyncio.TimeoutError from the request is caught by the except written
\* for wait_for, anything else leaves the handler.
session_raise(tk, x) ==
    IF x = "TimeoutError" THEN Finished(Ack(tk, "timed_out", "")) ELSE Raised(tk, x)

\* Line 603 resumes; line 605 awaits the followup.
au_net(t) ==
    /\ tasks[t].pc = "au_net"
    /\ \/ \E res \in Responses("invite") :
            tasks' = [tasks EXCEPT ![t] =
                [Ack(tasks[t], "invited", ResTag(res)) EXCEPT !.res = res, !.pc = "au_acked"]]
       \/ \E x \in Raises : tasks' = [tasks EXCEPT ![t] = session_raise(tasks[t], x)]
    /\ UNCHANGED <<users, servers, log_channels, views, invoked, bound>>

\* Line 605 resumes; line 607.
au_acked(t) ==
    /\ tasks[t].pc = "au_acked"
    /\ LET ch == get_log_channel(log_channels, tasks[t].panel, tasks[t].server_id)
       IN  IF ch = NoChannel
           THEN tasks' = [tasks EXCEPT ![t] = Finished(tasks[t])]
           ELSE tasks' = [tasks EXCEPT ![t] = [tasks[t] EXCEPT !.pc = "au_log", !.lc = ch]]
    /\ UNCHANGED <<users, servers, log_channels, views, invoked, bound>>

au_log(t) ==
    /\ tasks[t].pc = "au_log"
    /\ \E o \in LogOutcomes :
        tasks' = [tasks EXCEPT ![t] =
            Finished(Did(tasks[t], LogEv(tasks[t].lc, "Subuser Invited", o, ResTag(tasks[t].res))))]
    /\ UNCHANGED <<users, servers, log_channels, views, invoked, bound>>

add_user(t) == au_begin(t) \/ au_got(t) \/ au_net(t) \/ au_acked(t) \/ au_log(t)

\* Lines 627-631 and 691-695: the uuid of the first listed subuser with this
\* email, None if there is none.
RECURSIVE find_subuser(_, _)
find_subuser(subusers, email) ==
    IF subusers = <<>> THEN None
    ELSE IF Head(subusers).email = email THEN Head(subusers).uuid
    ELSE find_subuser(Tail(subusers), email)

\* Lines 625-641: the lookup in the list, and the remove request up to its
\* await (or through).
ru_got(t) ==
    /\ tasks[t].pc = "ru_got"
    /\ IF find_subuser(tasks[t].subusers, tasks[t].email) = None
       THEN tasks' = [tasks EXCEPT ![t] = Finished(Ack(tasks[t], "user_not_found", ""))]
       ELSE LET tk == [tasks[t] EXCEPT !.uid = find_subuser(tasks[t].subusers, tasks[t].email)]
            IN  IF client_api_precheck(tk.panel) # "ok"
                THEN tasks' = [tasks EXCEPT ![t] =
                        [Ack(Called(tk, "client", "DELETE /servers/{id}/users/{uid}"), "revoked",
                             client_api_precheck(tk.panel)) EXCEPT
                            !.res = ErrRes(client_api_precheck(tk.panel)), !.pc = "ru_acked"]]
                ELSE tasks' = [tasks EXCEPT ![t] =
                        [OnWire(tk, "client", "DELETE /servers/{id}/users/{uid}") EXCEPT !.pc = "ru_net"]]
    /\ UNCHANGED <<users, servers, log_channels, views, invoked, bound>>

\* Line 633 resumes; line 635 awaits the followup.
ru_net(t) ==
    /\ tasks[t].pc = "ru_net"
    /\ \/ \E res \in Responses("remove") :
            tasks' = [tasks EXCEPT ![t] =
                [Ack(tasks[t], "revoked", ResTag(res)) EXCEPT !.res = res, !.pc = "ru_acked"]]
       \/ \E x \in Raises : tasks' = [tasks EXCEPT ![t] = session_raise(tasks[t], x)]
    /\ UNCHANGED <<users, servers, log_channels, views, invoked, bound>>

\* Line 635 resumes; line 637.
ru_acked(t) ==
    /\ tasks[t].pc = "ru_acked"
    /\ LET ch == get_log_channel(log_channels, tasks[t].panel, tasks[t].server_id)
       IN  IF ch = NoChannel
           THEN tasks' = [tasks EXCEPT ![t] = Finished(tasks[t])]
           ELSE tasks' = [tasks EXCEPT ![t] = [tasks[t] EXCEPT !.pc = "ru_log", !.lc = ch]]
    /\ UNCHANGED <<users, servers, log_channels, views, invoked, bound>>

ru_log(t) ==
    /\ tasks[t].pc = "ru_log"
    /\ \E o \in LogOutcomes :
        tasks' = [tasks EXCEPT ![t] =
            Finished(Did(tasks[t], LogEv(tasks[t].lc, "Subuser Revoked", o, ResTag(tasks[t].res))))]
    /\ UNCHANGED <<users, servers, log_channels, views, invoked, bound>>

revoke_user(t) == ru_begin(t) \/ ru_got(t) \/ ru_net(t) \/ ru_acked(t) \/ ru_log(t)

\* -------------------------------------------------------------- .shareuser

\* Lines 671-679: the link of the member to the email, then ctx.send.
su_link_and_reply(t, slots, tk, res) ==
    /\ users' = IF tk.member # None THEN link_discord(users, tk.email, tk.member) ELSE users
    /\ tasks' = [slots EXCEPT ![t] =
            [Ack(IF tk.member # None THEN Did(tk, WriteEv("users", NoChannel)) ELSE tk,
                 "share_requested", ResTag(res)) EXCEPT !.res = res, !.pc = "su_acked"]]

\* Lines 663-669.
su_begin(t) ==
    \E user \in Users, panel_key \in PanelArgs, server_id \in ServerIds, email \in Emails,
       member \in Members \cup {None} :
        LET tk == [New("shareuser", user, panel_key) EXCEPT
                        !.server_id = server_id, !.email = email, !.member = member]
        IN  /\ Begin(t)
            /\ Room
            /\ IF client_api_precheck(panel_key) # "ok"
               THEN su_link_and_reply(t, Slots, Called(tk, "client", "POST /servers/{id}/users"),
                                      ErrRes(client_api_precheck(panel_key)))
               ELSE /\ tasks' = [Slots EXCEPT ![t] =
                            [OnWire(tk, "client", "POST /servers/{id}/users") EXCEPT !.pc = "su_net"]]
                    /\ UNCHANGED users
            /\ UNCHANGED <<servers, log_channels, views>>

\* Line 669 resumes.
su_net(t) ==
    /\ tasks[t].pc = "su_net"
    /\ \/ \E res \in Responses("invite") : su_link_and_reply(t, tasks, tasks[t], res)
       \/ \E x \in Raises :
            /\ tasks' = [tasks EXCEPT ![t] = Raised(tasks[t], x)]
            /\ UNCHANGED users
    /\ UNCHANGED <<servers, log_channels, views, invoked, bound>>

\* Line 679 resumes; line 681.
su_acked(t) ==
    /\ tasks[t].pc = "su_acked"
    /\ LET ch == get_log_channel(log_channels, tasks[t].panel, tasks[t].server_id)
       IN  IF ch = NoChannel
           THEN tasks' = [tasks EXCEPT ![t] = Finished(tasks[t])]
           ELSE tasks' = [tasks EXCEPT ![t] = [tasks[t] EXCEPT !.pc = "su_log", !.lc = ch]]
    /\ UNCHANGED <<users, servers, log_channels, views, invoked, bound>>

su_log(t) ==
    /\ tasks[t].pc = "su_log"
    /\ \E o \in LogOutcomes :
        tasks' = [tasks EXCEPT ![t] =
            Finished(Did(tasks[t], LogEv(tasks[t].lc, "Subuser Shared", o, ResTag(tasks[t].res))))]
    /\ UNCHANGED <<users, servers, log_channels, views, invoked, bound>>

shareuser_cmd(t) == su_begin(t) \/ su_net(t) \/ su_acked(t) \/ su_log(t)

\* ----------------------------------------------------------------- .revoke

\* Lines 683-687: the listing request up to its await; an error dict lists
\* nobody (line 689), so the loop finds nobody (line 705).
rv_begin(t) ==
    \E user \in Users, panel_key \in PanelArgs, server_id \in ServerIds, email \in Emails :
        LET tk == [New("revoke", user, panel_key) EXCEPT !.server_id = server_id, !.email = email]
        IN  /\ Begin(t)
            /\ Room
            /\ IF client_api_precheck(panel_key) # "ok"
               THEN tasks' = [Slots EXCEPT ![t] =
                        Finished(Ack(Called(tk, "client", "GET /servers/{id}/users"),
                                     "no_such_subuser", ""))]
               ELSE tasks' = [Slots EXCEPT ![t] =
                        [OnWire(tk, "client", "GET /servers/{id}/users") EXCEPT !.pc = "rv_list"]]
            /\ UNCHANGED <<users, servers, log_channels, views>>

\* Line 687 resumes; lines 689-697 or 705.
rv_list(t) ==
    /\ tasks[t].pc = "rv_list"
    /\ \/ \E res \in Responses("list_users") :
            IF find_subuser(res.data, tasks[t].email) = None
            THEN tasks' = [tasks EXCEPT ![t] = Finished(Ack(tasks[t], "no_such_subuser", ""))]
            ELSE tasks' = [tasks EXCEPT ![t] =
                    [OnWire([tasks[t] EXCEPT !.uid = find_subuser(res.data, tasks[t].email)],
                            "client", "DELETE /servers/{id}/users/{uid}") EXCEPT !.pc = "rv_net"]]
       \/ \E x \in Raises : tasks' = [tasks EXCEPT ![t] = Raised(tasks[t], x)]
    /\ UNCHANGED <<users, servers, log_channels, views, invoked, bound>>

\* Line 697 resumes; line 699 awaits ctx.send.
rv_net(t) ==
    /\ tasks[t].pc = "rv_net"
    /\ \/ \E res \in Responses("remove") :
            tasks' = [tasks EXCEPT ![t] =
                [Ack(tasks[t], "revoked", ResTag(res)) EXCEPT !.res = res, !.pc = "rv_acked"]]
       \/ \E x \in Raises : tasks' = [tasks EXCEPT ![t] = Raised(tasks[t], x)]
    /\ UNCHANGED <<users, servers, log_channels, views, invoked, bound>>

\* Line 699 resumes; line 701.
rv_acked(t) ==
    /\ tasks[t].pc = "rv_acked"
    /\ LET ch == get_log_channel(log_channels, tasks[t].panel, tasks[t].server_id)
       IN  IF ch = NoChannel
           THEN tasks' = [tasks EXCEPT ![t] = Finished(tasks[t])]
           ELSE tasks' = [tasks EXCEPT ![t] = [tasks[t] EXCEPT !.pc = "rv_log", !.lc = ch]]
    /\ UNCHANGED <<users, servers, log_channels, views, invoked, bound>>

rv_log(t) ==
    /\ tasks[t].pc = "rv_log"
    /\ \E o \in LogOutcomes :
        tasks' = [tasks EXCEPT ![t] =
            Finished(Did(tasks[t], LogEv(tasks[t].lc, "Subuser Revoked", o, ResTag(tasks[t].res))))]
    /\ UNCHANGED <<users, servers, log_channels, views, invoked, bound>>

revoke_cmd(t) == rv_begin(t) \/ rv_list(t) \/ rv_net(t) \/ rv_acked(t) \/ rv_log(t)

\* ---------------------------------------------------------- specifications

\* The commands: every slash and prefix command, started and run one
\* suspended handler at a time (the handlers that return without an await
\* run in between).
Next ==
    \E t \in Tasks :
        \/ slash_setlogchannel(t)
        \/ slash_setserverlog(t)
        \/ slash_createuser(t)
        \/ slash_createserver(t)
        \/ slash_deleteserver(t)
        \/ slash_viewservers(t)
        \/ manage_cmd(t)
        \/ manageshare_cmd_internal(t)
        \/ shareuser_cmd(t)
        \/ revoke_cmd(t)

Spec == Init /\ [][Next]_vars

\* The writers of the table users, in longer runs.  No log channel is ever
\* set here, so the steps that post to one are left out.
AccountInit ==
    /\ InitStore
    /\ bound = [limit |-> MaxAccountOps, width |-> 1]

AccountNext ==
    \E t \in Tasks :
        \/ cu_begin(t) \/ cu_net(t) \/ cu_dm(t) \/ cu_dm_member(t)
        \/ su_begin(t) \/ su_net(t) \/ su_acked(t)

AccountSpec == AccountInit /\ [][AccountNext]_vars

\* The writers of the table log_channels, in longer runs, and a reader.
SinkInit ==
    /\ InitStore
    /\ bound = [limit |-> MaxSinkOps, width |-> 1]

SinkNext ==
    \E t \in Tasks :
        \/ slash_setlogchannel(t)
        \/ slash_setserverlog(t)
        \/ slash_deleteserver(t)

SinkSpec == SinkInit /\ [][SinkNext]_vars

\* The share manager and its two buttons, with the messages and the
\* deadlines of their sessions; two sessions may be open at once.
ShareInit ==
    /\ InitStore
    /\ bound = [limit |-> MaxShareOps, width |-> 2]

ShareNext ==
    \/ \E t \in Tasks :
        \/ slash_setserverlog(t)
        \/ manageshare_cmd_internal(t)
        \/ add_user(t)
        \/ revoke_user(t)
        \/ Timeout(t)
    \/ Message

ShareSpec == ShareInit /\ [][ShareNext]_vars

\* The same without a log channel, under the scheduling the event loop
\* gives: it runs a coroutine whose await is over, and the timer of wait_for
\* fires when no message was accepted.
FairShareNext ==
    \/ \E t \in Tasks :
        \/ manageshare_cmd_internal(t)
        \/ au_begin(t) \/ au_got(t) \/ au_net(t) \/ au_acked(t)
        \/ ru_begin(t) \/ ru_got(t) \/ ru_net(t) \/ ru_acked(t)
        \/ Timeout(t)
    \/ Message

ShareFairness ==
    \A t \in Tasks : /\ WF_vars(Timeout(t))
                     /\ WF_vars(au_got(t))
                     /\ WF_vars(ru_got(t))

FairShareSpec == ShareInit /\ [][FairShareNext]_vars /\ ShareFairness

\* The log channels and the buttons of .manage that post to them.
ManageInit ==
    /\ InitStore
    /\ bound = [limit |-> MaxManageOps, width |-> 1]

ManageNext ==
    \E t \in Tasks :
        \/ slash_setlogchannel(t)
        \/ slash_setserverlog(t)
        \/ manage_cmd(t)
        \/ perform(t)
        \/ ms_net(t)

ManageSpec == ManageInit /\ [][ManageNext]_vars

\* /createuser handlers that are suspended at the same time: the event loop
\* runs one up to its next await, then any other whose await is over.  No log
\* channel is ever set here, so the step that posts to one is left out.
RaceInit ==
    /\ InitStore
    /\ bound = [limit |-> MaxRaceOps, width |-> 2]

RaceNext ==
    \E t \in Tasks : cu_begin(t) \/ cu_net(t) \/ cu_dm(t) \/ cu_dm_member(t)

RaceSpec == RaceInit /\ [][RaceNext]_vars

\* -------------------------------------------------------------- properties

\* What a coroutine's trace holds.
Has(tk, k) == \E i \in DOMAIN tk.trace : tk.trace[i].k = k

HasWhat(tk, k, what) == \E i \in DOMAIN tk.trace : tk.trace[i].k = k /\ tk.trace[i].what = what

\* The step starts a handler, in slot t.
Starts(t) == invoked' = invoked + 1 /\ Free(t)

\* The commands behind the admin gate.
AdminOnly == {"createuser", "createserver", "deleteserver", "viewservers",
              "setlogchannel", "setserverlog"}

\* C1: an admin-only command started by a caller outside ADMINS changes no
\* table, returns at once, and all it did is the reply "Not authorized": no
\* call of app_api_request or client_api_request, no write, no other message.
C1_UnauthorizedDoesNothing ==
    [][\A t \in Tasks :
        (Starts(t) /\ tasks'[t].cmd \in AdminOnly /\ tasks'[t].user \notin ADMINS)
        => /\ users' = users
           /\ servers' = servers
           /\ log_channels' = log_channels
           /\ tasks'[t].pc = "done"
           /\ tasks'[t].trace =
                << Ev("ack", tasks'[t].user, "not_authorized", NoChannel, TRUE, "") >>]_vars

\* C1's case: a caller outside ADMINS was turned away while the tables held a
\* sink and an account.
C1_Witness ==
    \E t \in Tasks :
        /\ tasks[t].pc = "done"
        /\ tasks[t].cmd \in {"createuser", "setlogchannel"}
        /\ tasks[t].user \notin ADMINS
        /\ HasWhat(tasks[t], "ack", "not_authorized")
        /\ users # <<>> \/ log_channels # <<>>

\* The table users holds a row for this email.
Stored(email) == \E i \in DOMAIN users : users[i].email = email

\* C2: no step removes a row of users or changes the email, the password, the
\* panel or the nickname of one (discord_id is all that may change); no two
\* rows hold the same email; and a /createuser whose email is already stored
\* leaves the table as it was and goes on to its DM like any other.
C2_FirstInsertKept ==
    [][/\ Len(users') >= Len(users)
       /\ \A i \in DOMAIN users :
            /\ users'[i].email = users[i].email
            /\ users'[i].password = users[i].password
            /\ users'[i].panel_key = users[i].panel_key
            /\ users'[i].nickname = users[i].nickname
       /\ \A i, j \in DOMAIN users' : users'[i].email = users'[j].email => i = j
       /\ \A t \in Tasks :
            (tasks[t].pc # "cu_dm" /\ tasks'[t].pc = "cu_dm" /\ Stored(tasks'[t].email))
            => users' = users]_vars

\* C2's case: a /createuser has passed its insert with an email that was
\* stored before with another password or panel, and the old row is there.
C2_Witness ==
    \E t \in Tasks, i \in DOMAIN users :
        /\ tasks[t].pc = "cu_dm"
        /\ users[i].email = tasks[t].email
        /\ users[i].password # tasks[t].pwd \/ users[i].panel_key # tasks[t].panel

\* The code after wait_for has run with the message it returned: it has called
\* client_api_request, or found nobody to revoke.
Continued(tk) == Has(tk, "call") \/ HasWhat(tk, "ack", "user_not_found")

\* The actor was told "Timed out. Try again.".
ToldTimedOut(tk) == HasWhat(tk, "ack", "timed_out")

\* C3: of a session, not both: a session that a message resolved is never
\* told "Timed out", and a session whose deadline passed never runs the code
\* after wait_for (it has returned, with no call of client_api_request).
C3_NotBoth ==
    \A t \in Tasks :
        /\ tasks[t].sess = "resolved" => ~ToldTimedOut(tasks[t])
        /\ tasks[t].sess = "timed_out" => tasks[t].pc = "done" /\ ~Continued(tasks[t])

\* C4: a session that is open leaves that state, and the code after wait_for
\* then runs or the actor is told "Timed out"; no session is over with neither.
C4_SessionEnds ==
    /\ \A t \in Tasks :
        (tasks[t].sess = "open") ~>
            \/ tasks[t].sess = "resolved" /\ Continued(tasks[t])
            \/ tasks[t].sess = "timed_out" /\ ToldTimedOut(tasks[t])
    /\ [](\A t \in Tasks :
            (tasks[t].pc = "done" /\ tasks[t].sess # "none")
            => Continued(tasks[t]) \/ ToldTimedOut(tasks[t]))

\* C4's case: one session is over by its deadline while another was resolved
\* by a message and has run on.
C4_Witness ==
    \E t, u \in Tasks :
        /\ tasks[t].pc = "done" /\ tasks[t].sess = "timed_out" /\ ToldTimedOut(tasks[t])
        /\ tasks[u].sess = "resolved" /\ Continued(tasks[u])

\* Where a fanout is suspended: on the DM to the invoker, on the DM to the
\* member named, on the post to the log channel.
InvokerDmPcs == {"cu_dm", "cs_dm", "ds_dm"}
MemberDmPcs == {"cu_dm_member", "cs_dm_owner"}
LogPcs == {"cu_log", "cs_log", "ds_log"}

\* The replies that close /createuser, /createserver and /deleteserver.
SuccessAcks == {"user_created", "user_created_dm_blocked", "server_creation_requested",
                "delete_requested"}

\* The last entry of a trace is one of the closing replies, to the invoker.
Acked(tk) ==
    /\ tk.trace # <<>>
    /\ tk.trace[Len(tk.trace)].k = "ack"
    /\ tk.trace[Len(tk.trace)].who = tk.user
    /\ tk.trace[Len(tk.trace)].what \in SuccessAcks

\* b is a with one DM to `who` tried, whatever came of it.
DmTried(a, b, who) ==
    /\ Len(b.trace) > Len(a.trace)
    /\ b.trace[Len(a.trace) + 1].k = "dm"
    /\ b.trace[Len(a.trace) + 1].who = who

\* After the DMs: with a log channel set the post is next, else the reply.
ThenLogOrAck(a, b) ==
    IF get_log_channel(log_channels, a.panel, a.server_id) # NoChannel
    THEN b.pc \in LogPcs /\ b.res = a.res
    ELSE b.pc = "done" /\ Acked(b) /\ ~Has(b, "post") /\ ~Has(b, "raise")

\* C5: in the fanout of /createuser, /createserver and /deleteserver every
\* delivery is tried whatever came of the ones before it: after the invoker's
\* DM, delivered or not, the member's DM is tried when a member was named;
\* after the DMs, delivered or not, the post to the log channel is tried when
\* one is set; a log channel that does not resolve gives no post and no
\* exception; and the handler ends with its reply to the invoker and with the
\* response it had.
C5_FanoutIndependent ==
    [][\A t \in Tasks :
        LET a == tasks[t]
            b == tasks'[t]
        IN  /\ (a.pc \in InvokerDmPcs /\ b # a)
               => /\ DmTried(a, b, a.user)
                  /\ IF a.member # None /\ a.pc # "ds_dm"
                     THEN b.pc \in MemberDmPcs /\ b.res = a.res
                     ELSE ThenLogOrAck(a, b)
            /\ (a.pc \in MemberDmPcs /\ b # a)
               => DmTried(a, b, a.member) /\ ThenLogOrAck(a, b)
            /\ (a.pc \in LogPcs /\ b # a)
               => /\ b.pc = "done"
                  /\ Acked(b)
                  /\ ~Has(b, "raise")
                  /\ Len(b.trace) = Len(a.trace) + 2
                  /\ b.trace[Len(a.trace) + 1].k \in {"post", "lost"}
                  /\ b.trace[Len(a.trace) + 1].chan = a.lc
                  /\ Has(b, "lost") => ~Has(b, "post")]_vars

\* C5's case: a /createuser is over whose DM to the invoker was not
\* delivered, whose DM to the member was tried after it, whose log channel did
\* not resolve, and which was answered.
C5_Witness ==
    \E t \in Tasks :
        /\ tasks[t].pc = "done" /\ tasks[t].cmd = "createuser" /\ tasks[t].member # None
        /\ \E i, j \in DOMAIN tasks[t].trace :
            /\ i < j
            /\ tasks[t].trace[i].k = "dm" /\ tasks[t].trace[i].who = tasks[t].user
            /\ ~tasks[t].trace[i].ok
            /\ tasks[t].trace[j].k = "dm" /\ tasks[t].trace[j].who = tasks[t].member
        /\ Has(tasks[t], "lost")
        /\ Acked(tasks[t])

\* The rowids of log_channels under a key, and the channel of the oldest.
RowsOf(panel_key, server_id) ==
    {i \in DOMAIN log_channels :
        log_channels[i].panel_key = panel_key /\ log_channels[i].server_id = server_id}

OldestChannel(rows) ==
    int(log_channels[CHOOSE i \in rows : \A j \in rows : i <= j].channel_id)

\* log_channels without the rows of other panels and other servers.
OnlyRowsFor(panel_key, server_id) ==
    SelectSeq(log_channels,
              LAMBDA r : r.panel_key = panel_key /\ r.server_id \in {server_id, None})

\* C6: for every panel name and server id, and for the panel alone:
\* get_log_channel gives the channel of the row set for (panel, server) when
\* there is one, whatever the panel's default is; else the channel of the
\* panel's default row (of the oldest, where several were set) when there is
\* one; else None.  A server has at most one row, and the rows of other panels
\* and other servers make no difference.
C6_InstanceThenDefault ==
    \A p \in PanelArgs, sid \in ServerIds \cup {None} :
        /\ sid # None => Cardinality(RowsOf(p, sid)) <= 1
        /\ get_log_channel(log_channels, p, sid) =
              IF sid # None /\ RowsOf(p, sid) # {} THEN OldestChannel(RowsOf(p, sid))
              ELSE IF RowsOf(p, None) # {} THEN OldestChannel(RowsOf(p, None))
              ELSE NoChannel
        /\ (RowsOf(p, sid) # {} \/ RowsOf(p, None) # {})
              => get_log_channel(log_channels, p, sid) \in Channels
        /\ get_log_channel(OnlyRowsFor(p, sid), p, sid) = get_log_channel(log_channels, p, sid)

\* C6's case: a /deleteserver has looked its log channel up and got the one
\* set for its server, while its panel's default is another channel.
C6_Witness ==
    \E t \in Tasks :
        /\ tasks[t].pc = "ds_log"
        /\ RowsOf(tasks[t].panel, tasks[t].server_id) # {}
        /\ RowsOf(tasks[t].panel, None) # {}
        /\ tasks[t].lc = OldestChannel(RowsOf(tasks[t].panel, tasks[t].server_id))
        /\ tasks[t].lc # OldestChannel(RowsOf(tasks[t].panel, None))

\* The rows of a table of log channels that are not under a key.
OtherRows(lc, panel_key, server_id) ==
    SelectSeq(lc, LAMBDA r : ~(r.panel_key = panel_key /\ r.server_id = server_id))

\* C7: a /setlogchannel or /setserverlog that writes leaves one row under its
\* key (panel, server), with None the key of the panel's default;
\* get_log_channel for the key then gives the channel just set; and the rows
\* under every other key are as they were.
C7_SetIsUpsert ==
    [][\A t \in Tasks :
        (Starts(t) /\ HasWhat(tasks'[t], "write", "log_channels"))
        => LET p == tasks'[t].panel
               sid == tasks'[t].server_id
               c == tasks'[t].trace[1].chan
           IN  /\ Len(SinkRows(log_channels', p, sid)) = 1
               /\ get_log_channel(log_channels', p, sid) = c
               /\ OtherRows(log_channels', p, sid) = OtherRows(log_channels, p, sid)]_vars

\* The replies that report a command as carried out.
SuccessReplies == SuccessAcks \cup {"logs_set"}

\* C8: a command given a panel name that is not in PANELS puts no request on
\* the wire, writes no row, and is not answered with a success reply; and no
\* table holds a row under a panel name that is not in PANELS.
C8_UnknownPanelFails ==
    /\ \A t \in Tasks :
        (tasks[t].cmd # None /\ tasks[t].panel \notin DOMAIN PANELS \cup {None})
        => /\ ~Has(tasks[t], "net")
           /\ ~Has(tasks[t], "write")
           /\ \A i \in DOMAIN tasks[t].trace :
                tasks[t].trace[i].k = "ack" => tasks[t].trace[i].what \notin SuccessReplies
    /\ \A i \in DOMAIN users : users[i].panel_key \in DOMAIN PANELS
    /\ \A i \in DOMAIN servers : servers[i].panel_key \in DOMAIN PANELS
    /\ \A i \in DOMAIN log_channels : log_channels[i].panel_key \in DOMAIN PANELS

\* The step in which the handler in slot t gets the result of its adapter call.
GetsResult(t, cmd) ==
    /\ tasks'[t].cmd = cmd
    /\ tasks'[t].res # NoRes
    /\ tasks[t].cmd # cmd \/ tasks[t].res = NoRes

\* C9: the table users gets a row only in the step in which a /createuser
\* gets the result of its POST /users, and not when that result is an
\* {"error": ...} (panel_not_found, missing_application_key,
\* invalid_json_response).
C9_AccountOnlyOnSuccess ==
    [][/\ \A t \in Tasks :
            (GetsResult(t, "createuser") /\ tasks'[t].res.kind = "error") => users' = users
       /\ Len(users') > Len(users) => \E t \in Tasks : GetsResult(t, "createuser")]_vars

\* C10: the table servers gets a row, and one only, in the step in which a
\* /createserver gets a result of its POST /servers that is not an
\* {"error": ...}, and in no other step; the row holds the uuid of the
\* response, and "unknown" when the response holds none.
C10_ServerOnlyOnSuccess ==
    [][/\ \A t \in Tasks :
            GetsResult(t, "createserver")
            => IF tasks'[t].res.kind = "error"
               THEN servers' = servers
               ELSE /\ Len(servers') = Len(servers) + 1
                    /\ SubSeq(servers', 1, Len(servers)) = servers
                    /\ servers'[Len(servers')].server_uuid =
                          IF response_uuid(tasks'[t].res) = None THEN "unknown"
                          ELSE response_uuid(tasks'[t].res)
       /\ servers' # servers => \E t \in Tasks : GetsResult(t, "createserver")]_vars

\* The errors app_api_request and client_api_request return before a request.
PrecheckErrors == {"panel_not_found", "missing_application_key", "missing_client_key"}

\* An adapter call of the handler returned before its request: with an error.
FailedCall(tk) ==
    \E i \in DOMAIN tk.trace :
        /\ tk.trace[i].k = "call"
        /\ i = Len(tk.trace) \/ tk.trace[i + 1].k # "net"

\* C11: a handler whose adapter call returned panel_not_found or a missing
\* key has, when it is over, told the invoker that error (in a reply, or in
\* a DM that was delivered), has given no reply that reads as done or as an
\* empty listing ("No such subuser found.", "No shared users"), and has
\* posted nothing to a log channel but that error.
C11_ErrorsSurfaced ==
    \A t \in Tasks :
        (tasks[t].pc = "done" /\ FailedCall(tasks[t]))
        => /\ \E i \in DOMAIN tasks[t].trace :
                /\ tasks[t].trace[i].k \in {"ack", "dm"}
                /\ tasks[t].trace[i].who = tasks[t].user
                /\ tasks[t].trace[i].ok
                /\ tasks[t].trace[i].res \in PrecheckErrors
           /\ \A i \in DOMAIN tasks[t].trace :
                /\ tasks[t].trace[i].k = "ack"
                   => /\ tasks[t].trace[i].what \notin SuccessReplies \cup {"no_such_subuser"}
                      /\ tasks[t].trace[i].res # "no_shared_users"
                /\ tasks[t].trace[i].k = "post" => tasks[t].trace[i].res \in PrecheckErrors

\* The replies to the invoker in a trace.
RECURSIVE Acks(_)
Acks(trace) ==
    IF trace = <<>> THEN 0
    ELSE Acks(Tail(trace)) + (IF Head(trace).k = "ack" THEN 1 ELSE 0)

\* C12: a handler that is over has replied to its invoker once, and once only.
C12_OneAck ==
    \A t \in Tasks : tasks[t].pc = "done" => Acks(tasks[t].trace) = 1

\* C13: a session whose deadline passed with no accepted message is over:
\* its actor was told "Timed out", the handler has returned, it has made no
\* call of client_api_request and no post to a log channel; and nothing
\* changes that afterwards (a later message finds no listener): the record
\* only goes when another handler starts.
C13_TimedOutDoesNothing ==
    /\ [](\A t \in Tasks :
            tasks[t].sess = "timed_out"
            => /\ tasks[t].pc = "done"
               /\ ToldTimedOut(tasks[t])
               /\ ~Has(tasks[t], "call") /\ ~Has(tasks[t], "net")
               /\ ~Has(tasks[t], "post") /\ ~Has(tasks[t], "lost"))
    /\ [][\A t \in Tasks :
            (tasks[t].sess = "timed_out" /\ tasks'[t] # tasks[t]) => invoked' = invoked + 1]_vars

\* C13's case: a session is over by its deadline, for a server that has a
\* log channel set.
C13_Witness ==
    \E t \in Tasks :
        /\ tasks[t].sess = "timed_out"
        /\ tasks[t].cmd \in {"add_user", "revoke_user"}
        /\ get_log_channel(log_channels, tasks[t].panel, tasks[t].server_id) # NoChannel

\* The member has an account linked: a row of users with this discord_id.
Linked(discord_id) == \E i \in DOMAIN users : users[i].discord_id = discord_id

\* C14: a /createserver by a caller in ADMINS goes on to its adapter call
\* only with an owner email: one it was given (then no member is stored with
\* the server), or the one of the account linked to the member it was given.
\* Without either it ends at once with the reply "Provide owner_email or
\* mention owner_discord registered in DB." and nothing else: no call, no
\* row in servers, no DM, no post.
C14_OwnerUnresolved ==
    [][\A t \in Tasks :
        (Starts(t) /\ tasks'[t].cmd = "createserver" /\ tasks'[t].user \in ADMINS)
        => IF tasks'[t].email = NoEmail
           THEN /\ tasks'[t].pc = "done"
                /\ tasks'[t].trace =
                     << Ev("ack", tasks'[t].user, "owner_unresolved", NoChannel, TRUE, "") >>
                /\ servers' = servers
                /\ tasks'[t].owner_discord # None => ~Linked(tasks'[t].owner_discord)
           ELSE /\ Has(tasks'[t], "call")
                /\ tasks'[t].member # None
                   => /\ tasks'[t].member = tasks'[t].owner_discord
                      /\ \E i \in DOMAIN users :
                            /\ users[i].discord_id = tasks'[t].member
                            /\ users[i].email = tasks'[t].email]_vars

\* C14's case: a /createserver with no owner email, for a member who has no
\* account linked while the table holds accounts, was turned away.
C14_Witness ==
    \E t \in Tasks :
        /\ tasks[t].pc = "done" /\ tasks[t].cmd = "createserver"
        /\ HasWhat(tasks[t], "ack", "owner_unresolved")
        /\ tasks[t].owner_discord # None
        /\ users # <<>>

\* C15: a /setserverlog that writes leaves the server one row, with the
\* channel it was given, and no other step changes the rows of a server; a
\* button of .manage, when it comes to its log post, takes the channel of
\* the server's row when there is one, wherever the panel's default stands
\* in the table, and the post it then tries goes to that channel.
C15_ServerChannelUsed ==
    [][/\ \A t \in Tasks :
            (Starts(t) /\ tasks'[t].cmd = "setserverlog" /\ Has(tasks'[t], "write"))
            => /\ Len(SinkRows(log_channels', tasks'[t].panel, tasks'[t].server_id)) = 1
               /\ int(SinkRows(log_channels', tasks'[t].panel, tasks'[t].server_id)[1].channel_id)
                    = tasks'[t].trace[1].chan
       /\ \A p \in PanelArgs, sid \in ServerIds :
            SinkRows(log_channels', p, sid) # SinkRows(log_channels, p, sid)
            => \E t \in Tasks :
                /\ Starts(t) /\ tasks'[t].cmd = "setserverlog"
                /\ tasks'[t].panel = p /\ tasks'[t].server_id = sid
       /\ \A t \in Tasks :
            (tasks[t].pc = "pf_acked" /\ tasks'[t] # tasks[t]
                /\ SinkRows(log_channels, tasks[t].panel, tasks[t].server_id) # <<>>)
            => /\ tasks'[t].pc = "pf_log"
               /\ tasks'[t].lc =
                    int(SinkRows(log_channels, tasks[t].panel, tasks[t].server_id)[1].channel_id)
       /\ \A t \in Tasks :
            (tasks[t].pc = "pf_log" /\ tasks'[t] # tasks[t])
            => /\ Len(tasks'[t].trace) = Len(tasks[t].trace) + 1
               /\ tasks'[t].trace[Len(tasks'[t].trace)].k \in {"post", "lost"}
               /\ tasks'[t].trace[Len(tasks'[t].trace)].chan = tasks[t].lc
               /\ tasks'[t].trace[Len(tasks'[t].trace)].what = button_title(tasks[t].act)]_vars

\* C15's case: a button has posted to the channel of its server's row while
\* the panel's default, set after that row, is another channel.
C15_Witness ==
    \E t \in Tasks, i, j \in DOMAIN log_channels :
        /\ tasks[t].cmd = "perform"
        /\ i < j
        /\ log_channels[i].panel_key = tasks[t].panel
        /\ log_channels[i].server_id = tasks[t].server_id
        /\ log_channels[j].panel_key = tasks[t].panel
        /\ log_channels[j].server_id = None
        /\ log_channels[j].channel_id # log_channels[i].channel_id
        /\ \E k \in DOMAIN tasks[t].trace :
            /\ tasks[t].trace[k].k = "post"
            /\ tasks[t].trace[k].ok
            /\ tasks[t].trace[k].chan = int(log_channels[i].channel_id)

\* How many entries of a kind a trace holds.
RECURSIVE Count(_, _)
Count(trace, k) ==
    IF trace = <<>> THEN 0
    ELSE Count(Tail(trace), k) + (IF Head(trace).k = k THEN 1 ELSE 0)

\* e is s without its leading and trailing blanks.
Blanks(n) == [i \in 1..n |-> " "]

IsTrimOf(e, s) ==
    /\ \E i, j \in 0..Len(s) : s = Blanks(i) \o e \o Blanks(j)
    /\ e # <<>> => Head(e) # " " /\ e[Len(e)] # " "

\* What the Add Share User handler does once its wait_for has returned a
\* message, but for the email its call carries: one call of
\* client_api_request, POST /servers/{id}/users for the server of the view,
\* with the five permissions, in the step after the message and in no other;
\* and once the reply with the result is out, with a log channel found for
\* (panel, server), one "Subuser Invited" post tried to it and the handler
\* over.
AddFlow(t) ==
    LET a == tasks[t]
        b == tasks'[t]
    IN  /\ (a.pc = "au_got" /\ b # a)
           => /\ Count(b.trace, "call") = 1
              /\ Count(a.trace, "call") = 0
              /\ \E i \in DOMAIN b.trace :
                    /\ b.trace[i].k = "call"
                    /\ b.trace[i].who = "client"
                    /\ b.trace[i].what = "POST /servers/{id}/users"
                    /\ b.trace[i].arg.server_id = a.server_id
                    /\ b.trace[i].arg.permissions = InvitePermissions
        /\ (a.cmd = "add_user" /\ a.pc # "au_got" /\ invoked' = invoked)
           => Count(b.trace, "call") = Count(a.trace, "call")
        /\ (a.pc = "au_acked" /\ b # a)
           => IF get_log_channel(log_channels, a.panel, a.server_id) # NoChannel
              THEN /\ b.pc = "au_log"
                   /\ b.lc = get_log_channel(log_channels, a.panel, a.server_id)
                   /\ b.trace = a.trace
              ELSE b.pc = "done" /\ b.trace = a.trace
        /\ (a.pc = "au_log" /\ b # a)
           => /\ b.pc = "done"
              /\ Len(b.trace) = Len(a.trace) + 1
              /\ b.trace[Len(b.trace)].k \in {"post", "lost"}
              /\ b.trace[Len(b.trace)].what = "Subuser Invited"
              /\ b.trace[Len(b.trace)].chan = a.lc
              /\ Count(b.trace, "post") + Count(b.trace, "lost") = 1

\* The email of the one call in a trace.
CallEmail(trace) ==
    (CHOOSE e \in {trace[i] : i \in DOMAIN trace} : e.k = "call").arg.email

CallThenWrite == {"createuser", "createserver", "shareuser"}

\* C17: in every handler's trace, what it has done is in the order gate,
\* adapter call, write, notification: a command behind the admin gate has
\* called or written only for a caller in ADMINS; a write comes after every
\* call and request of the handler, and there is none while a call that is
\* followed by a write has not returned; every DM and log post comes after
\* the write, and /createuser and /createserver send none without it.
C17_CallWriteNotify ==
    \A t \in Tasks :
        LET tk == tasks[t]
            tr == tasks[t].trace
        IN  /\ (tk.cmd \in AdminOnly /\ (Has(tk, "call") \/ Has(tk, "write")))
               => tk.user \in ADMINS
            /\ \A i, j \in DOMAIN tr :
                /\ (tr[i].k = "write" /\ tr[j].k \in {"call", "net"}) => j < i
                /\ (tr[i].k = "write" /\ tr[j].k \in {"dm", "post", "lost"}) => i < j
            /\ (tk.cmd \in CallThenWrite /\ Has(tk, "write")) => Has(tk, "call")
            /\ tk.pc \in {"cu_net", "cs_net", "su_net"} => ~Has(tk, "write")
            /\ (tk.cmd \in {"createuser", "createserver"} /\ Has(tk, "dm")) => Has(tk, "write")

\* C17's case: a /createuser is over that sent its request, wrote its row,
\* sent both DMs and tried its log post.
C17_Witness ==
    \E t \in Tasks :
        /\ tasks[t].pc = "done" /\ tasks[t].cmd = "createuser"
        /\ Has(tasks[t], "net") /\ Has(tasks[t], "write")
        /\ Count(tasks[t].trace, "dm") = 2
        /\ Has(tasks[t], "post")

\* C18: in every handler's trace, no DM and no log post (sent or lost) comes
\* after a reply to the caller: the notifications are all attempted before
\* the caller is answered.
C18_FanoutBeforeAck ==
    \A t \in Tasks :
        LET tr == tasks[t].trace
        IN  \A i, j \in DOMAIN tr :
                (tr[i].k = "ack" /\ tr[j].k \in {"dm", "post", "lost"}) => j < i

\* C19: no step takes a row out of the table servers or changes one: after
\* every step the table is what it was, with rows added at its end or none;
\* a /deleteserver of a server the table holds leaves its row there.
C19_ServersAppendOnly ==
    [][/\ Len(servers') >= Len(servers)
       /\ SubSeq(servers', 1, Len(servers)) = servers]_vars

\* C19's case: a /deleteserver is over whose request the panel answered with
\* 204, for a server of which the table still holds the row.
C19_Witness ==
    \E t \in Tasks :
        /\ tasks[t].pc = "done" /\ tasks[t].cmd = "deleteserver"
        /\ Has(tasks[t], "net")
        /\ \E i \in DOMAIN tasks[t].trace :
                tasks[t].trace[i].k = "dm" /\ tasks[t].trace[i].res = "status204"
        /\ \E i \in DOMAIN servers :
                /\ servers[i].panel_key = tasks[t].panel
                /\ servers[i].server_uuid = tasks[t].server_id

\* The error a call on a surface returns for a panel name that PANELS does
\* not hold, or whose entry holds no key for that surface; None otherwise.
RefusedWith(surface, panel_key) ==
    IF panel_key \notin DOMAIN PANELS THEN "panel_not_found"
    ELSE IF surface = "application" /\ PANELS[panel_key].application_api_key = None
         THEN "missing_application_key"
    ELSE IF surface = "client" /\ PANELS[panel_key].api_key = None
         THEN "missing_client_key"
    ELSE None

\* What a message that quotes a result may show of it (ResTag).
ResTags == PrecheckErrors \cup {"invalid_json_response", "status204", "json"}

\* C20: in every handler's trace a request on the wire is the one request of
\* the call just before it (same surface, same endpoint), so a call has at
\* most one request, and no call is made again whatever came back; a call for
\* an unknown panel or a panel without the surface's key has no request, the
\* handler holds panel_not_found / missing_..._key as its result, and what it
\* says next about the result is that error.
C20_OneRequestOrNone ==
    \A t \in Tasks :
        LET tk == tasks[t]
            tr == tasks[t].trace
        IN  \A i \in DOMAIN tr :
                /\ tr[i].k = "net"
                   => /\ i > 1
                      /\ tr[i - 1].k = "call"
                      /\ tr[i - 1].who = tr[i].who
                      /\ tr[i - 1].what = tr[i].what
                      /\ RefusedWith(tr[i].who, tk.panel) = None
                /\ tr[i].k = "call"
                   => /\ \A j \in DOMAIN tr : (j # i /\ tr[j].k = "call") => tr[j].what # tr[i].what
                      /\ RefusedWith(tr[i].who, tk.panel) # None
                         => /\ i = Len(tr) \/ tr[i + 1].k # "net"
                            /\ (i = Len(tr) /\ tk.pc # "done")
                               => tk.res = ErrRes(RefusedWith(tr[i].who, tk.panel))
                            /\ (i < Len(tr) /\ tr[i + 1].res \in ResTags)
                               => tr[i + 1].res = RefusedWith(tr[i].who, tk.panel)

\* C20's case: a handler holds missing_..._key as the result of its call on a
\* panel without the key, a call that put no request on the wire.
C20_Witness ==
    \E t \in Tasks :
        /\ tasks[t].pc \notin {"idle", "done"}
        /\ tasks[t].panel = "beta"
        /\ tasks[t].res.kind = "error"
        /\ tasks[t].res.err \in {"missing_application_key", "missing_client_key"}
        /\ Count(tasks[t].trace, "call") = 1 /\ Count(tasks[t].trace, "net") = 0

\* The step in which the handler in slot t runs its save_created_user.
Saves(t) ==
    /\ tasks'[t].cmd = "createuser"
    /\ Count(tasks'[t].trace, "write") = 1
    /\ ~Has(tasks[t], "write") \/ Starts(t)

\* C21: with /createuser handlers suspended at the same time, the table users
\* holds at most one row of an email; the save of a handler adds the row of
\* its email, password and panel when the table holds none of that email and
\* changes nothing when it holds one, so the row is the one of the save that
\* came first; and a handler that saved goes on to its reply, whatever the
\* other one did.
C21_FirstSaveWins ==
    /\ [](\A i, j \in DOMAIN users : users[i].email = users[j].email => i = j)
    /\ [](\A t \in Tasks :
            (tasks[t].pc = "done" /\ tasks[t].cmd = "createuser" /\ Has(tasks[t], "write"))
            => /\ Count(tasks[t].trace, "ack") = 1
               /\ tasks[t].trace[Len(tasks[t].trace)].what
                    \in {"user_created", "user_created_dm_blocked"})
    /\ [][/\ \A t \in Tasks :
                Saves(t)
                => IF \E i \in DOMAIN users : users[i].email = tasks'[t].email
                   THEN users' = users
                   ELSE /\ Len(users') = Len(users) + 1
                        /\ SubSeq(users', 1, Len(users)) = users
                        /\ users'[Len(users')].email = tasks'[t].email
                        /\ users'[Len(users')].password = tasks'[t].pwd
                        /\ users'[Len(users')].panel_key = tasks'[t].panel
          /\ users' # users => \E t \in Tasks : Saves(t)]_vars

\* C21's case: two /createuser of one email with different passwords and
\* panels are suspended after their saves, and the table holds one row of
\* that email, which is not the row of the handler in slot 1.
C21_Witness ==
    /\ \A t \in Tasks : tasks[t].cmd = "createuser" /\ tasks[t].pc = "cu_dm"
    /\ tasks[1].email = tasks[2].email
    /\ tasks[1].pwd # tasks[2].pwd
    /\ tasks[1].panel # tasks[2].panel
    /\ Len(users) = 1
    /\ users[1].email = tasks[1].email
    /\ users[1].password = tasks[2].pwd
    /\ users[1].panel_key = tasks[2].panel

\* The uuid listed holds for the email: that of the first entry with it.
ListedAs(listed, email, uuid) ==
    \E i \in DOMAIN listed :
        /\ listed[i].email = email
        /\ listed[i].uuid = uuid
        /\ \A j \in 1..(i - 1) : listed[j].email # email

\* C22: the Revoke User handler holds, from its start to its end, the subuser
\* list of a ShareView posted for its panel, server and channel, which is the
\* list fetched when that view was built; it never lists again; in the step
\* after its message it makes its one call, DELETE
\* /servers/{id}/users/{uid} with the uuid that list holds for the email,
\* when the list holds the email, and otherwise ends with "User not found
\* among subusers." and no call; and it makes no call in any other step.
C22_RevokeByOpenedList ==
    /\ [](\A t \in Tasks :
            tasks[t].cmd = "revoke_user"
            => /\ Count(tasks[t].trace, "call") <= 1
               /\ Count(tasks[t].trace, "net") <= 1
               /\ ~HasWhat(tasks[t], "call", "GET /servers/{id}/users"))
    /\ [][\A t \in Tasks :
            LET a == tasks[t]
                b == tasks'[t]
            IN  /\ (Starts(t) /\ b.cmd = "revoke_user")
                   => \E v \in views :
                        /\ v.kind = "share" /\ v.panel = b.panel
                        /\ v.server_id = b.server_id /\ v.chan = b.chan
                        /\ v.subusers = b.subusers
                /\ (a.cmd = "revoke_user" /\ a.pc # "done" /\ invoked' = invoked)
                   => /\ b.pc # "done" => b.subusers = a.subusers
                      /\ a.pc # "ru_got" => Count(b.trace, "call") = Count(a.trace, "call")
                /\ (a.cmd = "revoke_user" /\ a.pc = "ru_got" /\ b # a)
                   => IF \E i \in DOMAIN a.subusers : a.subusers[i].email = a.email
                      THEN \E i \in DOMAIN b.trace :
                            /\ b.trace[i].k = "call"
                            /\ b.trace[i].who = "client"
                            /\ b.trace[i].what = "DELETE /servers/{id}/users/{uid}"
                            /\ b.trace[i].arg.server_id = a.server_id
                            /\ ListedAs(a.subusers, a.email, b.trace[i].arg.uid)
                      ELSE /\ b.pc = "done"
                           /\ Count(b.trace, "call") = 0
                           /\ b.trace[Len(b.trace)].k = "ack"
                           /\ b.trace[Len(b.trace)].what = "user_not_found"]_vars

\* C22's case: an Add Share User handler has invited an email on a server and
\* was told the result, and a Revoke User handler of the same panel and
\* server that got that email as its reply is over with "User not found among
\* subusers." and no call.
C22_Witness ==
    \E t, u \in Tasks :
        /\ tasks[t].cmd = "add_user"
        /\ Count(tasks[t].trace, "net") = 1
        /\ \E i \in DOMAIN tasks[t].trace :
                /\ tasks[t].trace[i].k = "ack"
                /\ tasks[t].trace[i].what = "invited"
                /\ tasks[t].trace[i].res = "json"
        /\ tasks[u].cmd = "revoke_user" /\ tasks[u].pc = "done"
        /\ tasks[u].panel = tasks[t].panel /\ tasks[u].server_id = tasks[t].server_id
        /\ strip(tasks[u].content) = CallEmail(tasks[t].trace)
        /\ HasWhat(tasks[u], "ack", "user_not_found")
        /\ Count(tasks[u].trace, "call") = 0

\* C23: the message a session got is one its own actor wrote in its own
\* channel; of two open sessions of different actors or channels, a step
\* gives a message to one at most and leaves the other as it was; and the
\* step in which the deadline of one passes leaves every other open session
\* as it was.
C23_OwnMessagesOnly ==
    /\ [](\A t \in Tasks :
            (tasks[t].sess = "resolved" /\ tasks[t].pc # "done")
            => /\ tasks[t].msg_author = tasks[t].user
               /\ tasks[t].msg_chan = tasks[t].chan)
    /\ [][\A t, u \in Tasks :
            (t # u /\ tasks[t].sess = "open" /\ tasks[u].sess = "open")
            => /\ (tasks'[t].sess = "resolved"
                   /\ <<tasks[t].user, tasks[t].chan>> # <<tasks[u].user, tasks[u].chan>>)
                  => tasks'[u] = tasks[u]
               /\ tasks'[t].sess = "timed_out" => tasks'[u] = tasks[u]]_vars

\* C23's case: of the sessions of two actors, open at the same time, one got
\* its actor's message and the other is still open.
C23_Witness ==
    \E t, u \in Tasks :
        /\ tasks[t].sess = "resolved" /\ tasks[t].pc \in {"au_got", "ru_got"}
        /\ tasks[t].msg_author = tasks[t].user
        /\ tasks[u].sess = "open"
        /\ tasks[u].user # tasks[t].user

\* C24: the password every message of a /createuser shows (the DM to the
\* invoker, the DM to the member, the post to the log channel) is the one the
\* table users holds for the email the message shows.
C24_ShownPasswordIsStored ==
    \A t \in Tasks :
        \A i \in DOMAIN tasks[t].trace :
            LET e == tasks[t].trace[i]
            IN  (tasks[t].cmd = "createuser" /\ e.k \in {"dm", "post", "lost"})
                => \E r \in DOMAIN users :
                        /\ users[r].email = e.arg.email
                        /\ users[r].password = e.arg.password

\* C25: a step of a handler whose caller is outside ADMINS changes none of
\* the tables users, servers and log_channels.
C25_NonAdminChangesNothing ==
    [][\A t \in Tasks :
        (tasks'[t] # tasks[t] /\ tasks'[t].pc # "idle" /\ tasks'[t].user \notin ADMINS)
        => /\ users' = users
           /\ servers' = servers
           /\ log_channels' = log_channels]_vars

\* C26: no two rows of the table users hold the same discord_id (other than
\* none): a member is linked to one account at most.
C26_OneAccountPerMember ==
    \A i, j \in DOMAIN users :
        (users[i].discord_id # None /\ users[i].discord_id = users[j].discord_id) => i = j

\* C27: a /createserver that was given an owner member and is over with the
\* reply "Server creation requested" has sent the DM "Your Server Created" to
\* that member, and the rows /myservers lists for the member hold a row of
\* the server's panel and name with the member as owner.
C27_OwnerMemberRecorded ==
    \A t \in Tasks :
        (/\ tasks[t].pc = "done" /\ tasks[t].cmd = "createserver"
         /\ tasks[t].owner_discord # None
         /\ HasWhat(tasks[t], "ack", "server_creation_requested"))
        => /\ \E i \in DOMAIN tasks[t].trace :
                /\ tasks[t].trace[i].k = "dm"
                /\ tasks[t].trace[i].who = tasks[t].owner_discord
                /\ tasks[t].trace[i].what = "Your Server Created"
           /\ \E i \in DOMAIN myservers_rows(servers, tasks[t].owner_discord) :
                /\ myservers_rows(servers, tasks[t].owner_discord)[i].panel_key = tasks[t].panel
                /\ myservers_rows(servers, tasks[t].owner_discord)[i].owner_discord
                        = tasks[t].owner_discord

====
